---- MODULE Spec2Model ----
(***************************************************************************)
(* Configuration resolution, client construction and error normalisation  *)
(* of the Nvisy TypeScript SDK (nvisycom/sdk-ts).                          *)
(*                                                                         *)
(* The repository holds several revisions of the same classes.  Modelled   *)
(* here are                                                                *)
(*   - Client            src/src/client.ts            (credential apiToken)*)
(*   - Nvisy             src/unnamed/part_026         (credential apiToken)*)
(*   - ClientBuilder     src/unnamed/part_027:14-263  (credential apiKey)  *)
(*   - loadConfigFromEnv / resolveConfig   src/unnamed/part_024            *)
(*   - errorMiddleware   src/src/middleware/error.ts                       *)
(*   - ApiError, ConfigError, NetworkError src/src/errors.ts:196-386       *)
(*   - ApiError (statusCode-guarded revision) src/unnamed/part_047:162-282 *)
(*                                                                         *)
(* JavaScript strings are TLA+ strings, handled character by character.    *)
(* An object property is absent (NoProp), present with the value undefined *)
(* (Undef), or present with a value (Val(v)).  A thrown exception is the   *)
(* err field of an operation's result; NoErr means normal return.          *)
(***************************************************************************)
EXTENDS Integers, Sequences, FiniteSets, TLC

(***************************************************************************)
(* Bounds of the explored inputs.                                          *)
(***************************************************************************)
MaxRun == 10
MaxPad == 1
MaxCalls == 1

(***************************************************************************)
(* Strings.                                                                *)
(***************************************************************************)
LowerSeq == "abcdefghijklmnopqrstuvwxyz"
UpperSeq == "ABCDEFGHIJKLMNOPQRSTUVWXYZ"
DigitSeq == "0123456789"

Char(s, i) == SubSeq(s, i, i)

Chars(s) == { Char(s, i) : i \in 1..Len(s) }

Lower == Chars(LowerSeq)
Upper == Chars(UpperSeq)
Digits == Chars(DigitSeq)
Alpha == Lower \cup Upper
AlphaNum == Alpha \cup Digits

\* String.prototype.trim strips these from both ends
WhiteSpace == {" ", "\t", "\n"}

RECURSIVE Rep(_, _)
Rep(c, n) == IF n <= 0 THEN "" ELSE c \o Rep(c, n - 1)

\* the index of the first character of s at or after i that is no white
\* space, Len(s) + 1 if there is none
RECURSIVE FirstInk(_, _)
FirstInk(s, i) ==
    IF i <= Len(s) /\ Char(s, i) \in WhiteSpace THEN FirstInk(s, i + 1) ELSE i

\* the index of the last character of s at or before i that is no white
\* space, 0 if there is none
RECURSIVE LastInk(_, _)
LastInk(s, i) ==
    IF i >= 1 /\ Char(s, i) \in WhiteSpace THEN LastInk(s, i - 1) ELSE i


Trim(s) == SubSeq(s, FirstInk(s, 1), LastInk(s, Len(s)))

\* RegExp /^[set]+$/.test(s)
MatchesAll(s, set) == Len(s) > 0 /\ \A i \in 1..Len(s) : Char(s, i) \in set

LowerOf ==
    [c \in Upper |->
        Char(LowerSeq, CHOOSE i \in 1..Len(UpperSeq) : Char(UpperSeq, i) = c)]

LowerChar(c) == IF c \in Upper THEN LowerOf[c] ELSE c

RECURSIVE ToLowerCase(_)
ToLowerCase(s) ==
    IF Len(s) = 0 THEN ""
    ELSE LowerChar(Char(s, 1)) \o ToLowerCase(SubSeq(s, 2, Len(s)))

\* index of the first occurrence of a character of set in s, 0 if none
RECURSIVE IndexOfAny(_, _, _)
IndexOfAny(s, set, i) ==
    IF i > Len(s) THEN 0
    ELSE IF Char(s, i) \in set THEN i
    ELSE IndexOfAny(s, set, i + 1)

(***************************************************************************)
(* Object properties and results.                                          *)
(***************************************************************************)
NoProp == [p |-> "absent"]
Undef == [p |-> "undefined"]
Val(v) == [p |-> "value", v |-> v]

IsVal(x) == x.p = "value"

\* the ?? operator: the right-hand side for undefined (and absent) only
Nullish(x, d) == IF IsVal(x) THEN x.v ELSE d

NoErr == [kind |-> "none"]

(***************************************************************************)
(* ConfigError factories, src/src/errors.ts:298-345.                       *)
(***************************************************************************)
\* a faulty variant: the error names no field and gives no reason
ConfigError_missingApiKey_bare ==
    [kind |-> "ConfigError", message |-> "API key is required",
     field |-> "", reason |-> ""]

ConfigError_missingApiKey ==
    [kind |-> "ConfigError", message |-> "API key is required",
     field |-> "apiKey",
     reason |-> "API key must be provided in configuration"]

ConfigError_invalidField(field, reason) ==
    [kind |-> "ConfigError",
     message |-> "Invalid configuration for " \o field \o ": " \o reason,
     field |-> field, reason |-> reason]

ConfigError_missingField(field) ==
    [kind |-> "ConfigError",
     message |-> "Missing required configuration field: " \o field,
     field |-> field, reason |-> "This field is required"]

\* new NvisyError(message), src/src/errors.ts:33-52
NvisyError(message) == [kind |-> "NvisyError", message |-> message]

(***************************************************************************)
(* Header objects: a JavaScript object is its entries in insertion order,  *)
(* each <<name, value>>; a value is [str, s], str FALSE for a value that   *)
(* is not of type string.                                                  *)
(***************************************************************************)
HStr(s) == [str |-> TRUE, s |-> s]
HNum(s) == [str |-> FALSE, s |-> s]

EmptyObject == <<>>

HasKey(h, name) == \E i \in 1..Len(h) : h[i][1] = name

\* h[name] = value: an existing key keeps its place, a new key is appended
SetKey(h, name, value) ==
    IF HasKey(h, name)
    THEN [i \in 1..Len(h) |-> IF h[i][1] = name THEN <<name, value>> ELSE h[i]]
    ELSE Append(h, <<name, value>>)

RECURSIVE Spread(_, _)
\* { ...a, ...b }
Spread(a, b) ==
    IF Len(b) = 0 THEN a
    ELSE Spread(SetKey(a, b[1][1], b[1][2]), Tail(b))

GetKey(h, name) ==
    IF HasKey(h, name)
    THEN Val(h[CHOOSE i \in 1..Len(h) : h[i][1] = name][2])
    ELSE NoProp


(***************************************************************************)
(* Defaults, src/src/config.ts:163-232 and src/unnamed/part_023:68-78.     *)
(***************************************************************************)
DEFAULTS_BASE_URL == "https://api.nvisy.com"
VERSION == "0.2.0"

buildUserAgent ==
    \* process.platform and process.version of the one runtime modelled
    "@nvisy/sdk v." \o VERSION \o " (linux; Node.js v20.10.0)"

DEFAULTS_USER_AGENT == "@nvisy/sdk v." \o VERSION

NoClient == [class |-> "none"]

(***************************************************************************)
(* Client, src/src/client.ts.                                              *)
(***************************************************************************)
TokenChars == AlphaNum \cup {"_", "-"}
MinTokenLen == 10

\* a faulty variant: the raw token is returned, not the trimmed one
Client_validateApiToken_raw(apiToken) ==
    IF ~IsVal(apiToken) \/ Len(Trim(apiToken.v)) = 0
    THEN [err |-> ConfigError_invalidField("apiToken",
                      "must be a non-empty string"), val |-> ""]
    ELSE IF Len(Trim(apiToken.v)) < MinTokenLen
    THEN [err |-> ConfigError_invalidField("apiToken",
                      "must be at least 10 characters"), val |-> ""]
    ELSE IF ~MatchesAll(Trim(apiToken.v), TokenChars)
    THEN [err |-> ConfigError_invalidField("apiToken",
                      "contains invalid characters"), val |-> ""]
    ELSE [err |-> NoErr, val |-> apiToken.v]

\* a faulty variant: the length check is dropped
Client_validateApiToken_nolen(apiToken) ==
    IF ~IsVal(apiToken) \/ Len(Trim(apiToken.v)) = 0
    THEN [err |-> ConfigError_invalidField("apiToken",
                      "must be a non-empty string"), val |-> ""]
    ELSE IF ~MatchesAll(Trim(apiToken.v), TokenChars)
    THEN [err |-> ConfigError_invalidField("apiToken",
                      "contains invalid characters"), val |-> ""]
    ELSE [err |-> NoErr, val |-> Trim(apiToken.v)]

\* #validateApiToken, client.ts:180-195
Client_validateApiToken(apiToken) ==
    IF ~IsVal(apiToken) \/ Len(Trim(apiToken.v)) = 0
    THEN [err |-> ConfigError_invalidField("apiToken",
                      "must be a non-empty string"), val |-> ""]
    ELSE IF Len(Trim(apiToken.v)) < MinTokenLen
    THEN [err |-> ConfigError_invalidField("apiToken",
                      "must be at least 10 characters"), val |-> ""]
    ELSE IF ~MatchesAll(Trim(apiToken.v), TokenChars)
    THEN [err |-> ConfigError_invalidField("apiToken",
                      "contains invalid characters"), val |-> ""]
    ELSE [err |-> NoErr, val |-> Trim(apiToken.v)]

\* #createApiClient, client.ts:155-170: createClient({baseUrl, headers})
\* followed by api.use(errorMiddleware)
Client_createApiClient(config) ==
    [baseUrl |-> config.baseUrl,
     headers |-> Spread(<< <<"Content-Type", HStr("application/json")>>,
                           <<"User-Agent", HStr(config.userAgent)>>,
                           <<"Authorization",
                             HStr("Bearer " \o config.apiToken)>> >>,
                        config.headers),
     middlewares |-> <<"errorMiddleware">>]

\* a faulty variant: the dispatcher is created before the token is validated
Client_new_eager(config) ==
    LET token == Client_validateApiToken(config.apiToken)
        resolved == [apiToken |-> token.val,
                     baseUrl |-> Nullish(config.baseUrl, DEFAULTS_BASE_URL),
                     headers |-> Nullish(config.headers, EmptyObject),
                     userAgent |-> Nullish(config.userAgent, buildUserAgent)]
    IN  IF token.err # NoErr
        THEN [err |-> token.err, client |-> NoClient,
              steps |-> <<"createClient", "validateApiToken">>]
        ELSE [err |-> NoErr,
              client |-> [class |-> "Client", config |-> resolved,
                          api |-> Client_createApiClient(resolved)],
              steps |-> <<"createClient", "validateApiToken">>]

\* a faulty variant: an absent baseUrl gets no default
Client_new_nodefault(config) ==
    LET token == Client_validateApiToken(config.apiToken)
        resolved == [apiToken |-> token.val,
                     baseUrl |-> IF IsVal(config.baseUrl)
                                 THEN config.baseUrl.v ELSE "undefined",
                     headers |-> Nullish(config.headers, EmptyObject),
                     userAgent |-> Nullish(config.userAgent, buildUserAgent)]
    IN  IF token.err # NoErr
        THEN [err |-> token.err, client |-> NoClient,
              steps |-> <<"validateApiToken">>]
        ELSE [err |-> NoErr,
              client |-> [class |-> "Client", config |-> resolved,
                          api |-> Client_createApiClient(resolved)],
              steps |-> <<"validateApiToken", "createClient">>]

\* constructor, client.ts:136-147.  steps lists what ran, in order.
Client_new(config) ==
    LET token == Client_validateApiToken(config.apiToken)
        resolved == [apiToken |-> token.val,
                     baseUrl |-> Nullish(config.baseUrl, DEFAULTS_BASE_URL),
                     headers |-> Nullish(config.headers, EmptyObject),
                     userAgent |-> Nullish(config.userAgent, buildUserAgent)]
    IN  IF token.err # NoErr
        THEN [err |-> token.err, client |-> NoClient,
              steps |-> <<"validateApiToken">>]
        ELSE [err |-> NoErr,
              client |-> [class |-> "Client", config |-> resolved,
                          api |-> Client_createApiClient(resolved)],
              steps |-> <<"validateApiToken", "createClient">>]

\* a property of process.env: absent, or a string
EnvTruthy(x) == IsVal(x) /\ x.v # ""

\* Client.fromEnvironment, client.ts:108-119
Client_fromEnvironment(env) ==
    IF ~EnvTruthy(env.API_TOKEN)
    THEN [err |-> ConfigError_missingField("NVISY_API_TOKEN"),
          client |-> NoClient, steps |-> <<>>]
    ELSE Client_new([apiToken |-> env.API_TOKEN,
                     baseUrl |-> IF IsVal(env.BASE_URL)
                                 THEN env.BASE_URL ELSE Undef,
                     userAgent |-> IF IsVal(env.USER_AGENT)
                                   THEN env.USER_AGENT ELSE Undef,
                     headers |-> NoProp])

(***************************************************************************)
(* Nvisy, src/unnamed/part_026.                                            *)
(***************************************************************************)
NvisyTokenChars == AlphaNum \cup {"_", ".", "-"}

\* #validateApiToken, part_026:141-156
Nvisy_validateApiToken(apiToken) ==
    IF ~IsVal(apiToken) \/ Len(Trim(apiToken.v)) = 0
    THEN [err |-> NvisyError("API token must be a non-empty string"),
          val |-> ""]
    ELSE IF Len(Trim(apiToken.v)) < MinTokenLen
    THEN [err |-> NvisyError("API token must be at least 10 characters"),
          val |-> ""]
    ELSE IF ~MatchesAll(Trim(apiToken.v), NvisyTokenChars)
    THEN [err |-> NvisyError("API token contains invalid characters"),
          val |-> ""]
    ELSE [err |-> NoErr, val |-> Trim(apiToken.v)]

\* #createApiClient, part_026:112-131
Nvisy_createApiClient(config) ==
    [baseUrl |-> config.baseUrl,
     headers |-> Spread(<< <<"Content-Type", HStr("application/json")>>,
                           <<"User-Agent", HStr(config.userAgent)>>,
                           <<"Authorization",
                             HStr("Bearer " \o config.apiToken)>> >>,
                        config.headers),
     middlewares |-> IF config.withLogging
                     THEN <<"loggingMiddleware", "errorMiddleware">>
                     ELSE <<"errorMiddleware">>]

\* constructor, part_026:92-104
Nvisy_new(config) ==
    LET token == Nvisy_validateApiToken(config.apiToken)
        resolved == [apiToken |-> token.val,
                     baseUrl |-> Nullish(config.baseUrl, DEFAULTS_BASE_URL),
                     headers |-> Nullish(config.headers, EmptyObject),
                     userAgent |-> Nullish(config.userAgent,
                                           DEFAULTS_USER_AGENT),
                     withLogging |-> Nullish(config.withLogging, FALSE)]
    IN  IF token.err # NoErr
        THEN [err |-> token.err, client |-> NoClient,
              steps |-> <<"validateApiToken">>]
        ELSE [err |-> NoErr,
              client |-> [class |-> "Nvisy", config |-> resolved,
                          api |-> Nvisy_createApiClient(resolved)],
              steps |-> <<"validateApiToken", "createClient">>]

(***************************************************************************)
(* new URL(input) without a base, as the platform parses it: leading and   *)
(* trailing space stripped, the scheme up to the first ":", and for the    *)
(* special schemes a host that must not be empty.                          *)
(***************************************************************************)
SchemeChars == AlphaNum \cup {"+", "-", "."}
SpecialSchemes == {"http", "https", "ftp", "ws", "wss"}
ForbiddenHostChars ==
    {" ", "#", "/", ":", "<", ">", "?", "@", "[", "\\", "]", "^", "|", "%"}

RECURSIVE SkipSlashes(_)
SkipSlashes(s) ==
    IF Len(s) > 0 /\ Char(s, 1) \in {"/", "\\"}
    THEN SkipSlashes(SubSeq(s, 2, Len(s)))
    ELSE s

RECURSIVE LastIndexOf(_, _, _)
LastIndexOf(s, c, i) ==
    IF i = 0 THEN 0
    ELSE IF Char(s, i) = c THEN i
    ELSE LastIndexOf(s, c, i - 1)

UpTo(s, set) ==
    LET i == IndexOfAny(s, set, 1)
    IN  IF i = 0 THEN s ELSE SubSeq(s, 1, i - 1)

After(s, i) == SubSeq(s, i + 1, Len(s))

URL_new(input) ==
    LET t == Trim(input)
        colon == IndexOfAny(t, {":"}, 1)
        scheme == ToLowerCase(SubSeq(t, 1, colon - 1))
        authority == UpTo(SkipSlashes(After(t, colon)), {"/", "\\", "?", "#"})
        hostport == After(authority, LastIndexOf(authority, "@",
                                                  Len(authority)))
        host == UpTo(hostport, {":"})
        port == After(hostport, Len(host))
    IN  IF colon <= 1 \/ Char(t, 1) \notin Alpha
           \/ ~MatchesAll(scheme, SchemeChars)
        THEN [ok |-> FALSE, protocol |-> ""]
        ELSE IF scheme \in SpecialSchemes
                /\ (Len(host) = 0
                    \/ \E i \in 1..Len(host) :
                           Char(host, i) \in ForbiddenHostChars
                    \/ (Len(port) > 1
                        /\ ~MatchesAll(After(port, 1), Digits)))
        THEN [ok |-> FALSE, protocol |-> ""]
        ELSE [ok |-> TRUE, protocol |-> scheme \o ":"]

(***************************************************************************)
(* JavaScript numbers: i + f/10 with i the floor; nan for NaN.             *)
(***************************************************************************)
Num(i) == [nan |-> FALSE, i |-> i, f |-> 0]
Frac(i, f) == [nan |-> FALSE, i |-> i, f |-> f]
NaN == [nan |-> TRUE, i |-> 0, f |-> 0]

IsInteger(n) == ~n.nan /\ n.f = 0
NumLess(n, m) == ~n.nan /\ n.i < m
NumGreater(n, m) == ~n.nan /\ (n.i > m \/ (n.i = m /\ n.f > 0))
\* a number used as a condition
NumTruthy(n) == ~n.nan /\ ~(n.i = 0 /\ n.f = 0)

(***************************************************************************)
(* ClientBuilder, src/unnamed/part_027:14-263.  An operation returns the   *)
(* builder's #config after it and the exception it raised, if any.         *)
(***************************************************************************)
RESERVED_HEADERS == {"authorization", "content-type", "user-agent"}
\* the grave accent, which the expression admits as well, cannot be written
\* in a string here; no input contains it
HeaderNameChars ==
    AlphaNum \cup {"!", "#", "$", "%", "&", "'", "*", "+", "-", ".", "^",
                   "_", "|", "~"}
MinTimeout == 1000
MaxTimeout == 300000
MinRetries == 0
MaxRetries == 5

\* #config = {}, part_027:15
Builder_new ==
    [apiKey |-> NoProp, baseUrl |-> NoProp, timeout |-> NoProp,
     maxRetries |-> NoProp, headers |-> NoProp, userAgent |-> NoProp]

Ok(b) == [err |-> NoErr, b |-> b]
Throw(e, b) == [err |-> e, b |-> b]

\* #validateString, part_027:189-193; NoErr when it returns
Builder_validateString(fieldName, value) ==
    IF ~IsVal(value) \/ value.v = "" \/ Len(Trim(value.v)) = 0
    THEN ConfigError_invalidField(fieldName, "must be a non-empty string")
    ELSE NoErr

\* #validateInteger, part_027:198-211
Builder_validateInteger(fieldName, value, min, max) ==
    IF ~IsVal(value) \/ ~IsInteger(value.v) \/ NumLess(value.v, min)
    THEN ConfigError_invalidField(fieldName,
             "must be an integer >= " \o ToString(min))
    ELSE IF NumGreater(value.v, max)
    THEN ConfigError_invalidField(fieldName,
             "must not exceed " \o ToString(max))
    ELSE NoErr

\* #validateUrl, part_027:216-231
Builder_validateUrl(baseUrl) ==
    IF ~URL_new(baseUrl).ok
    THEN ConfigError_invalidField("baseUrl", "must be a valid URL")
    ELSE IF URL_new(baseUrl).protocol \notin {"https:", "http:"}
    THEN ConfigError_invalidField("baseUrl",
             "protocol must be one of: https:, http:")
    ELSE NoErr

\* #validateSingleHeader, part_027:236-262
Builder_validateSingleHeader(name, value) ==
    IF name = "" \/ Len(Trim(name)) = 0
    THEN ConfigError_invalidField("header name", "must be a non-empty string")
    ELSE IF ~value.str
    THEN ConfigError_invalidField("header value", "must be a string")
    ELSE IF ~MatchesAll(name, HeaderNameChars)
    THEN ConfigError_invalidField("header name",
             "invalid header name: " \o name)
    ELSE IF ToLowerCase(name) \in RESERVED_HEADERS
    THEN ConfigError_invalidField("header name",
             "header \"" \o name \o "\" is reserved and cannot be overridden")
    ELSE NoErr

\* withUserAgent, part_027:83-87
Builder_withUserAgent(b, userAgent) ==
    IF Builder_validateString("userAgent", userAgent) # NoErr
    THEN Throw(Builder_validateString("userAgent", userAgent), b)
    ELSE Ok([b EXCEPT !.userAgent = userAgent])

\* withApiKey, part_027:92-109
Builder_withApiKey(b, apiKey) ==
    IF Builder_validateString("apiKey", apiKey) # NoErr
    THEN Throw(Builder_validateString("apiKey", apiKey), b)
    ELSE IF Len(Trim(apiKey.v)) < MinTokenLen
    THEN Throw(ConfigError_invalidField("apiKey",
                   "must be at least 10 characters"), b)
    ELSE IF ~MatchesAll(Trim(apiKey.v), TokenChars)
    THEN Throw(ConfigError_invalidField("apiKey",
                   "contains invalid characters"), b)
    ELSE Ok([b EXCEPT !.apiKey = Val(Trim(apiKey.v))])

\* a faulty variant: the value is stored as given and left to build()
Builder_withBaseUrl_lazy(b, baseUrl) == Ok([b EXCEPT !.baseUrl = baseUrl])

\* withBaseUrl, part_027:114-119
Builder_withBaseUrl(b, baseUrl) ==
    IF Builder_validateString("baseUrl", baseUrl) # NoErr
    THEN Throw(Builder_validateString("baseUrl", baseUrl), b)
    ELSE IF Builder_validateUrl(baseUrl.v) # NoErr
    THEN Throw(Builder_validateUrl(baseUrl.v), b)
    ELSE Ok([b EXCEPT !.baseUrl = baseUrl])

\* a faulty variant: both bounds are taken as excluded
Builder_withTimeout_open(b, timeoutMs) ==
    IF Builder_validateInteger("timeout", timeoutMs, MinTimeout + 1,
                               MaxTimeout - 1) # NoErr
    THEN Throw(Builder_validateInteger("timeout", timeoutMs, MinTimeout + 1,
                                       MaxTimeout - 1), b)
    ELSE Ok([b EXCEPT !.timeout = timeoutMs])

\* withTimeout, part_027:124-128
Builder_withTimeout(b, timeoutMs) ==
    IF Builder_validateInteger("timeout", timeoutMs, MinTimeout, MaxTimeout)
           # NoErr
    THEN Throw(Builder_validateInteger("timeout", timeoutMs, MinTimeout,
                                       MaxTimeout), b)
    ELSE Ok([b EXCEPT !.timeout = timeoutMs])

\* withMaxRetries, part_027:133-137
Builder_withMaxRetries(b, maxRetries) ==
    IF Builder_validateInteger("maxRetries", maxRetries, MinRetries,
                               MaxRetries) # NoErr
    THEN Throw(Builder_validateInteger("maxRetries", maxRetries, MinRetries,
                                       MaxRetries), b)
    ELSE Ok([b EXCEPT !.maxRetries = maxRetries])

\* withHeader, part_027:142-151
Builder_withHeader(b, name, value) ==
    IF Builder_validateSingleHeader(name, value) # NoErr
    THEN Throw(Builder_validateSingleHeader(name, value), b)
    ELSE Ok([b EXCEPT !.headers =
                Val(SetKey(Nullish(b.headers, EmptyObject), name, value))])

RECURSIVE Builder_withHeadersLoop(_, _)
\* the for loop of withHeaders, part_027:161-163: an entry that is rejected
\* ends the loop with the entries before it already stored
Builder_withHeadersLoop(b, entries) ==
    IF Len(entries) = 0 THEN Ok(b)
    ELSE LET r == Builder_withHeader(b, entries[1][1], entries[1][2])
         IN  IF r.err # NoErr THEN r
             ELSE Builder_withHeadersLoop(r.b, Tail(entries))

\* withHeaders, part_027:156-166
Builder_withHeaders(b, headers) ==
    IF ~IsVal(headers)
    THEN Throw(ConfigError_invalidField("headers", "must be a valid object"),
               b)
    ELSE Builder_withHeadersLoop(b, headers.v)

\* fromApiKey, part_027:20-22
Builder_fromApiKey(apiKey) == Builder_withApiKey(Builder_new, apiKey)

\* r.then(step): the next call of a chain runs unless an earlier one threw
Then(r, step(_)) == IF r.err # NoErr THEN r ELSE step(r.b)

(***************************************************************************)
(* process.env and loadConfigFromEnv, src/unnamed/part_024:62-92, with the *)
(* user-agent variable of src/src/config.ts:70-73.  The credential         *)
(* variable is NVISY_API_KEY there and NVISY_API_TOKEN in client.ts: one   *)
(* variable, renamed between revisions.                                    *)
(***************************************************************************)
DigitValue(c) == (CHOOSE i \in 1..10 : Char(DigitSeq, i) = c) - 1

RECURSIVE DigitsValue(_, _)
\* the value of the longest prefix of digits of s, after acc
DigitsValue(s, acc) ==
    IF Len(s) = 0 \/ Char(s, 1) \notin Digits THEN acc
    ELSE DigitsValue(SubSeq(s, 2, Len(s)), 10 * acc + DigitValue(Char(s, 1)))

\* parseInt(s, 10)
ParseInt(s) ==
    LET t == SubSeq(s, FirstInk(s, 1), Len(s))
        neg == Len(t) > 0 /\ Char(t, 1) = "-"
        u == IF Len(t) > 0 /\ Char(t, 1) \in {"-", "+"}
             THEN SubSeq(t, 2, Len(t)) ELSE t
    IN  IF Len(u) = 0 \/ Char(u, 1) \notin Digits THEN NaN
        ELSE Num(IF neg THEN 0 - DigitsValue(u, 0) ELSE DigitsValue(u, 0))

EnvNumber(x) ==
    IF EnvTruthy(x) /\ ~ParseInt(x.v).nan THEN Val(ParseInt(x.v)) ELSE NoProp

loadConfigFromEnv(env) ==
    [apiKey |-> IF EnvTruthy(env.API_TOKEN) THEN env.API_TOKEN ELSE NoProp,
     baseUrl |-> IF EnvTruthy(env.BASE_URL) THEN env.BASE_URL ELSE NoProp,
     timeout |-> EnvNumber(env.TIMEOUT),
     maxRetries |-> EnvNumber(env.MAX_RETRIES),
     headers |-> NoProp,
     userAgent |-> IF EnvTruthy(env.USER_AGENT) THEN env.USER_AGENT
                   ELSE NoProp]

DEFAULT_TIMEOUT == 30000
DEFAULT_MAX_RETRIES == 3

\* a || d on a string property
OrElse(x, d) == IF IsVal(x) /\ x.v # "" THEN x.v ELSE d

\* { ...envConfig, ...userConfig }: an own property of userConfig wins,
\* whatever its value
Merged(envProp, userProp) == IF userProp # NoProp THEN userProp ELSE envProp

\* resolveConfig, part_024:97-108
resolveConfig(userConfig, env) ==
    LET envConfig == loadConfigFromEnv(env)
    IN  [apiKey |-> OrElse(Merged(envConfig.apiKey, userConfig.apiKey), ""),
         baseUrl |-> OrElse(Merged(envConfig.baseUrl, userConfig.baseUrl),
                            DEFAULTS_BASE_URL),
         timeout |-> Nullish(Merged(envConfig.timeout, userConfig.timeout),
                             Num(DEFAULT_TIMEOUT)),
         maxRetries |-> Nullish(Merged(envConfig.maxRetries,
                                       userConfig.maxRetries),
                                Num(DEFAULT_MAX_RETRIES)),
         headers |-> Spread(EmptyObject,
                            Nullish(Merged(envConfig.headers,
                                           userConfig.headers), EmptyObject))]

(***************************************************************************)
(* ClientBuilder, the static factories and build.                          *)
(***************************************************************************)
\* the calls after withApiKey that fromEnvironment and fromConfig share,
\* each under the condition the factory tests
Builder_chain(r, c, hasTimeout) ==
    LET r1 == Then(r, LAMBDA b : IF OrElse(c.baseUrl, "") # ""
                                 THEN Builder_withBaseUrl(b, c.baseUrl)
                                 ELSE Ok(b))
        r2 == Then(r1, LAMBDA b : IF hasTimeout
                                  THEN Builder_withTimeout(b, c.timeout)
                                  ELSE Ok(b))
        r3 == Then(r2, LAMBDA b : IF c.maxRetries # NoProp
                                       /\ c.maxRetries # Undef
                                  THEN Builder_withMaxRetries(b, c.maxRetries)
                                  ELSE Ok(b))
        r4 == Then(r3, LAMBDA b : IF IsVal(c.headers)
                                  THEN Builder_withHeaders(b, c.headers)
                                  ELSE Ok(b))
    IN  Then(r4, LAMBDA b : IF OrElse(c.userAgent, "") # ""
                            THEN Builder_withUserAgent(b, c.userAgent)
                            ELSE Ok(b))

\* fromEnvironment, part_027:27-53
Builder_fromEnvironment(env) ==
    LET envConfig == loadConfigFromEnv(env)
    IN  IF ~IsVal(envConfig.apiKey)
        THEN Throw(ConfigError_missingApiKey, Builder_new)
        ELSE Builder_chain(Builder_withApiKey(Builder_new, envConfig.apiKey),
                           envConfig,
                           IsVal(envConfig.timeout)
                               /\ NumTruthy(envConfig.timeout.v))

\* fromConfig, part_027:58-78
Builder_fromConfig(config) ==
    Builder_chain(Builder_withApiKey(Builder_new, config.apiKey), config,
                  config.timeout # NoProp /\ config.timeout # Undef)

\* build, part_027:171-177.  new Client(this.#config as ClientConfig): the
\* builder's credential apiKey is the constructor's apiToken.
Builder_build(b) ==
    IF ~IsVal(b.apiKey) \/ b.apiKey.v = ""
    THEN [err |-> ConfigError_missingApiKey, client |-> NoClient,
          steps |-> <<>>]
    ELSE Client_new([apiToken |-> b.apiKey, baseUrl |-> b.baseUrl,
                     headers |-> b.headers, userAgent |-> b.userAgent])

(***************************************************************************)
(* Errors of a request, src/src/errors.ts:196-386.  A property of an error *)
(* object is Val(v), or Undef when the constructor was handed undefined.   *)
(***************************************************************************)
\* reading a property: undefined when the object does not have it
Read(prop) == IF IsVal(prop) THEN prop ELSE Undef

\* new ApiError(response, statusCode), errors.ts:225-238
ApiError_new(response, statusCode) ==
    [kind |-> "ApiError",
     name |-> Read(response.name),
     message |-> Read(response.message),
     resource |-> Read(response.resource),
     suggestion |-> Read(response.suggestion),
     validationErrors |-> Read(response.validationErrors),
     statusCode |-> statusCode]

\* comparisons of a statusCode that may be undefined: false then
StatusGE(statusCode, n) == IsVal(statusCode) /\ statusCode.v >= n
StatusLT(statusCode, n) == IsVal(statusCode) /\ statusCode.v < n
StatusEQ(statusCode, n) == IsVal(statusCode) /\ statusCode.v = n

\* a faulty variant: 500 itself is left out
ApiError_isServerError_gt(e) ==
    IsVal(e.statusCode) /\ e.statusCode.v > 500

\* isClientError, errors.ts:243-245 (NvisyApiError: errors.ts:138-140)
ApiError_isClientError(e) ==
    StatusGE(e.statusCode, 400) /\ StatusLT(e.statusCode, 500)

\* isServerError, errors.ts:250-252 (NvisyApiError: errors.ts:150-152)
ApiError_isServerError(e) == StatusGE(e.statusCode, 500)

\* a faulty variant: 408 is forgotten
ApiError_isRetryable_no408(e) ==
    StatusGE(e.statusCode, 500) \/ StatusEQ(e.statusCode, 429)

\* isRetryable, errors.ts:257-263
ApiError_isRetryable(e) ==
    \/ StatusGE(e.statusCode, 500)
    \/ StatusEQ(e.statusCode, 408)
    \/ StatusEQ(e.statusCode, 429)

\* NetworkError.connection(message, cause), errors.ts:362-364
NetworkError_connection(message, cause) ==
    [kind |-> "NetworkError", message |-> message, cause |-> cause]

\* NetworkError.aborted(), errors.ts:376-378
NetworkError_aborted ==
    [kind |-> "NetworkError", message |-> "Request was aborted",
     cause |-> Undef]

\* new NvisyApiError(response, statusCode), errors.ts:89-102
NvisyApiError_new(response, statusCode) ==
    [kind |-> "NvisyApiError",
     name |-> Read(response.name),
     message |-> Read(response.message),
     resource |-> Read(response.resource),
     suggestion |-> Read(response.suggestion),
     validation |-> Read(response.validation),
     statusCode |-> statusCode]

\* isClientError, errors.ts:138-140
NvisyApiError_isClientError(e) ==
    StatusGE(e.statusCode, 400) /\ StatusLT(e.statusCode, 500)

\* isServerError, errors.ts:150-152
NvisyApiError_isServerError(e) == StatusGE(e.statusCode, 500)

\* isRetryable, errors.ts:162-168
NvisyApiError_isRetryable(e) ==
    \/ StatusGE(e.statusCode, 500)
    \/ StatusEQ(e.statusCode, 408)
    \/ StatusEQ(e.statusCode, 429)

(***************************************************************************)
(* ApiError of src/unnamed/part_047:162-282: a message, a status code and  *)
(* the optional error response.                                            *)
(***************************************************************************)
\* new ApiError(message, statusCode, options), part_047:170-182
ApiErrorV1_new(message, statusCode, errorResponse) ==
    [kind |-> "ApiErrorV1", message |-> message, statusCode |-> statusCode,
     errorResponse |-> errorResponse]

\* a statusCode used as a condition
StatusTruthy(statusCode) == IsVal(statusCode) /\ statusCode.v # 0

\* isClientError, part_047:222-226
ApiErrorV1_isClientError(e) ==
    IF StatusTruthy(e.statusCode)
    THEN e.statusCode.v >= 400 /\ e.statusCode.v < 500
    ELSE FALSE

\* isServerError, part_047:231-233
ApiErrorV1_isServerError(e) ==
    IF StatusTruthy(e.statusCode) THEN e.statusCode.v >= 500 ELSE FALSE

\* isRetryable, part_047:238-247
ApiErrorV1_isRetryable(e) ==
    IF ~StatusTruthy(e.statusCode) THEN FALSE
    ELSE \/ e.statusCode.v >= 500
         \/ e.statusCode.v = 408
         \/ e.statusCode.v = 429

\* `${n}` of a number
NumberToString(n) ==
    IF n.nan THEN "NaN"
    ELSE IF n.f = 0 THEN ToString(n.i)
    ELSE ToString(n.i) \o "." \o ToString(n.f)

\* n * 1000, the fraction of a number being its tenths
Times1000(n) == IF n.nan THEN NaN ELSE Num(1000 * n.i + 100 * n.f)

Null == [p |-> "null"]

\* ApiError.rateLimited, part_047:204-217
ApiErrorV1_rateLimited(retryAfter) ==
    LET given == IsVal(retryAfter) /\ NumTruthy(retryAfter.v)
        message == IF given
                   THEN "Rate limited. Retry after "
                            \o NumberToString(retryAfter.v) \o " seconds"
                   ELSE "Rate limited"
    IN  ApiErrorV1_new(message, Val(429),
            Val([name |-> Val("RateLimitError"), message |-> Val(message),
                 context |-> Val(IF given
                                 THEN "retryAfter: "
                                          \o NumberToString(retryAfter.v)
                                 ELSE "")]))

\* context.match(/retryAfter: (\d+)/): where the digits of the first match
\* start, 0 when there is none
RetryAfterMatch(context) ==
    LET at == {i \in 1..Len(context) :
                  /\ i + 12 <= Len(context)
                  /\ SubSeq(context, i, i + 11) = "retryAfter: "
                  /\ Char(context, i + 12) \in Digits}
    IN  IF at = {} THEN 0
        ELSE (CHOOSE i \in at : \A j \in at : i <= j) + 12

\* getRetryDelay, part_047:252-270
ApiErrorV1_getRetryDelay(e) ==
    IF ~ApiErrorV1_isRetryable(e) THEN Null
    ELSE IF /\ e.statusCode.v = 429
            /\ IsVal(e.errorResponse)
            /\ "context" \in DOMAIN e.errorResponse.v
            /\ IsVal(e.errorResponse.v.context)
            /\ e.errorResponse.v.context.v # ""
            /\ RetryAfterMatch(e.errorResponse.v.context.v) # 0
    THEN LET context == e.errorResponse.v.context.v
         IN  Val(Num(1000 * DigitsValue(
                            SubSeq(context, RetryAfterMatch(context),
                                   Len(context)), 0)))
    ELSE Val(Num(1000))

(***************************************************************************)
(* errorMiddleware, src/src/middleware/error.ts:9-28.  A response is       *)
(* [status, statusText, body]; body.json is FALSE when response.json()     *)
(* rejects, and body.value is the parsed object otherwise.  The outcome of *)
(* a hook is what the caller of the service method gets: the response, or  *)
(* the exception thrown.                                                   *)
(***************************************************************************)
ResponseOk(response) == response.status >= 200 /\ response.status <= 299

Returned(response) == [tag |-> "returned", response |-> response]
Thrown(e) == [tag |-> "thrown", err |-> e]

\* what response.json() rejects with
SyntaxError ==
    [kind |-> "SyntaxError", message |-> "Unexpected end of JSON input"]

\* a faulty variant: the status of the error is always 500
errorMiddleware_onResponse_500(response) ==
    IF ~ResponseOk(response)
    THEN IF ~response.body.json
         THEN Thrown(SyntaxError)
         ELSE Thrown(ApiError_new(response.body.value, Val(500)))
    ELSE Returned(response)

\* onResponse, error.ts:10-16
errorMiddleware_onResponse(response) ==
    IF ~ResponseOk(response)
    THEN IF ~response.body.json
         THEN Thrown(SyntaxError)
         ELSE Thrown(ApiError_new(response.body.value, Val(response.status)))
    ELSE Returned(response)

\* a faulty variant: the failure is swallowed and an empty answer returned
errorMiddleware_onError_swallow(error) ==
    Returned([status |-> 204, statusText |-> "No Content",
              body |-> [json |-> FALSE, value |-> [text |-> ""]]])

\* onError, error.ts:18-27.  error is what fetch threw: [isError, name,
\* message]
errorMiddleware_onError(error) ==
    IF error.isError
    THEN IF error.name = "AbortError"
         THEN Thrown(NetworkError_aborted)
         ELSE Thrown(NetworkError_connection(error.message, Val(error)))
    ELSE Thrown(NetworkError_connection("An unknown network error occurred",
                                        Undef))

\* the errorMiddleware of the Nvisy client, part_022:9-25
nvisyErrorMiddleware_onResponse(response) ==
    IF ~ResponseOk(response)
    THEN IF ~response.body.json
         THEN Thrown(SyntaxError)
         ELSE Thrown(NvisyApiError_new(response.body.value,
                                       Val(response.status)))
    ELSE Returned(response)

nvisyErrorMiddleware_onError(error) ==
    IF error.isError
    THEN Thrown(NvisyError(error.message))
    ELSE Thrown(NvisyError("An unknown network error occurred"))

\* ApiError.fromResponse(response, errorData), part_047:187-199
ApiErrorV1_fromResponse(response, errorData) ==
    ApiErrorV1_new(IF IsVal(errorData) /\ IsVal(errorData.v.message)
                      /\ errorData.v.message.v # ""
                   THEN errorData.v.message.v
                   ELSE "HTTP " \o ToString(response.status) \o ": "
                            \o response.statusText,
                   Val(response.status), errorData)

\* what a caller asks of a caught error, errors.ts:63-71: the methods are
\* those of the API error classes, and no other error has them
IsApiError(e) == e.kind \in {"ApiError", "NvisyApiError", "ApiErrorV1"}

isClientError(e) ==
    CASE e.kind = "ApiError" -> ApiError_isClientError(e)
      [] e.kind = "NvisyApiError" -> NvisyApiError_isClientError(e)
      [] e.kind = "ApiErrorV1" -> ApiErrorV1_isClientError(e)
      [] OTHER -> FALSE

isServerError(e) ==
    CASE e.kind = "ApiError" -> ApiError_isServerError(e)
      [] e.kind = "NvisyApiError" -> NvisyApiError_isServerError(e)
      [] e.kind = "ApiErrorV1" -> ApiErrorV1_isServerError(e)
      [] OTHER -> FALSE

isRetryable(e) ==
    CASE e.kind = "ApiError" -> ApiError_isRetryable(e)
      [] e.kind = "NvisyApiError" -> NvisyApiError_isRetryable(e)
      [] e.kind = "ApiErrorV1" -> ApiErrorV1_isRetryable(e)
      [] OTHER -> FALSE

(***************************************************************************)
(* The state.                                                              *)
(*   input    the configuration object and the process environment a      *)
(*            construction is handed                                       *)
(*   builder  the #config of the ClientBuilder at hand, NoProp before one  *)
(*            exists                                                       *)
(*   client   what the latest construction returned to its caller:         *)
(*            NoClient when it threw                                       *)
(*   last     the latest operation: its name, the argument of a builder    *)
(*            method, the exception it raised, the steps it ran and the    *)
(*            value it returned                                            *)
(*   result   what the latest service call gave its caller                 *)
(*   requests the number of requests handed to the transport               *)
(*   transport what the transport did with the latest request: the        *)
(*            response it gave, or what fetch threw                        *)
(*   heap     the objects that are held by reference, in order of          *)
(*            allocation: header maps and dispatchers; a reference is an   *)
(*            index into it                                                *)
(*   handles  the client objects alive: the references each one's #config  *)
(*            and #api hold, the client it was derived from, and what it   *)
(*            was when its constructor returned                            *)
(*   facades  the service objects the accessors have handed out            *)
(*   flights  the requests made on the client, in order of sending: where  *)
(*            each one is, the headers it left with, what the transport    *)
(*            did with it and what its caller got                          *)
(***************************************************************************)
VARIABLES input, builder, client, last, result, requests, transport,
          heap, handles, facades, flights

objs == <<heap, handles, facades, flights>>

vars == <<input, builder, client, last, result, requests, transport, objs>>

Idle ==
    [op |-> "none", arg |-> NoProp, err |-> NoErr, steps |-> <<>>,
     ret |-> NoProp]
NoResult == [tag |-> "none"]
NoOutcome == [sent |-> FALSE]

Done(op, err, steps) ==
    [op |-> op, arg |-> NoProp, err |-> err, steps |-> steps, ret |-> NoProp]

\* a configuration object with no property, and an empty environment
NoConfig ==
    [apiKey |-> NoProp, baseUrl |-> NoProp, timeout |-> NoProp,
     maxRetries |-> NoProp, headers |-> NoProp, userAgent |-> NoProp]
NoEnv ==
    [API_TOKEN |-> NoProp, BASE_URL |-> NoProp, USER_AGENT |-> NoProp,
     TIMEOUT |-> NoProp, MAX_RETRIES |-> NoProp]
NoInput == [cfg |-> NoConfig, env |-> NoEnv]

\* the ClientConfig of client.ts that a configuration object is
ClientConfigOf(cfg) ==
    [apiToken |-> cfg.apiKey, baseUrl |-> cfg.baseUrl,
     headers |-> cfg.headers, userAgent |-> cfg.userAgent]

\* the NvisyConfig of part_026 that a configuration object is
NvisyConfigOf(cfg) ==
    [apiToken |-> cfg.apiKey, baseUrl |-> cfg.baseUrl,
     headers |-> cfg.headers, userAgent |-> cfg.userAgent,
     withLogging |-> NoProp]

(***************************************************************************)
(* Responses and transport failures of a request.                          *)
(***************************************************************************)
\* the entries of a validation failure are the property validationErrors of
\* the body for ApiError and the property validation for NvisyApiError
ErrorBody(name, message, resource, suggestion, validationErrors, validation) ==
    [json |-> TRUE,
     value |-> [name |-> name, message |-> message, resource |-> resource,
                suggestion |-> suggestion,
                validationErrors |-> validationErrors,
                validation |-> validation]]
NotJson == [json |-> FALSE, value |-> [text |-> "<html>Bad Gateway</html>"]]

Response(status, body) ==
    [status |-> status, statusText |-> "Error", body |-> body]

RateLimitBody ==
    ErrorBody(Val("RateLimited"), Val("slow down"), NoProp,
              Val("Retry later"), NoProp, NoProp)
ValidationBody ==
    ErrorBody(Val("validation_error"), Val("Invalid input"),
              Val("document"), NoProp,
              Val(<<[field |-> "title", message |-> "is required"]>>),
              Val(<<[field |-> "title", message |-> "is required"]>>))
EmptyBody == ErrorBody(NoProp, NoProp, NoProp, NoProp, NoProp, NoProp)
DataBody ==
    ErrorBody(Val("doc-1"), NoProp, NoProp, NoProp, NoProp, NoProp)

Bodies == {RateLimitBody, ValidationBody, EmptyBody, NotJson}

FetchErrors ==
    {[kind |-> "Error", isError |-> TRUE, name |-> "AbortError",
      message |-> "This operation was aborted"],
     [kind |-> "Error", isError |-> TRUE, name |-> "TypeError", message |-> "fetch failed"],
     [kind |-> "Error", isError |-> FALSE, name |-> "", message |-> "a string was thrown"]}

HasMiddleware(api, m) ==
    \E i \in 1..Len(api.middlewares) : api.middlewares[i] = m

\* one request of a client: the transport answers with a response or fails
\* with what fetch threw, and the error middleware the client registered
\* turns that into what the caller gets
Dispatch(c, outcome) ==
    IF ~HasMiddleware(c.api, "errorMiddleware")
    THEN IF outcome.failed THEN Thrown(outcome.error)
         ELSE Returned(outcome.response)
    ELSE IF c.class = "Nvisy"
    THEN IF outcome.failed THEN nvisyErrorMiddleware_onError(outcome.error)
         ELSE nvisyErrorMiddleware_onResponse(outcome.response)
    ELSE IF outcome.failed THEN errorMiddleware_onError(outcome.error)
         ELSE errorMiddleware_onResponse(outcome.response)

Answered(response) ==
    [sent |-> TRUE, failed |-> FALSE, response |-> response,
     error |-> [kind |-> "Error", isError |-> FALSE, name |-> "", message |-> ""]]
Failed(error) ==
    [sent |-> TRUE, failed |-> TRUE, response |-> Response(0, NotJson), error |-> error]

\* what this.#api.GET/POST/... resolves to when no middleware threw: data
\* for a 2xx response, else error, which is the parsed body, or the text of
\* a body that does not parse (a string has none of the properties an
\* error body has)
FetchResult(response) ==
    [data |-> IF ResponseOk(response) THEN Val(response.body.value)
              ELSE Undef,
     error |-> IF ResponseOk(response) THEN Undef
               ELSE IF response.body.json THEN Val(response.body.value)
               ELSE Val(EmptyBody.value),
     response |-> response]

\* unwrap, errors.ts:196-205
unwrap(fetched) ==
    IF IsVal(fetched.error)
    THEN Thrown(ApiError_new(fetched.error.v, Val(fetched.response.status)))
    ELSE [tag |-> "returned", response |-> fetched.response,
          data |-> fetched.data]

\* a method of a service: one call of the dispatcher; the services of
\* Client return unwrap(result), part_034:106-111, those of Nvisy return
\* the data of the result, part_034:25-31
Service_call(c, outcome) ==
    LET r == Dispatch(c, outcome)
    IN  IF r.tag = "thrown" THEN r
        ELSE IF c.class = "Nvisy"
        THEN [tag |-> "returned", response |-> r.response,
              data |-> FetchResult(r.response).data]
        ELSE unwrap(FetchResult(r.response))

(***************************************************************************)
(* The life of a builder and a client: the operations a caller can make,   *)
(* in any order, on small arguments.                                       *)
(***************************************************************************)
KeyArgs == {Val(" valid-key-123456 "), Val("short"), Undef}
UrlArgs == {Val("https://custom.api.com"), Val("invalid-url")}
TimeoutArgs == {Val(Num(15000)), Val(Num(999))}
RetryArgs == {Val(Num(5)), Val(Num(6))}
UserAgentArgs == {Val("MyApp/1.0"), Val("")}
HeaderNameArgs == {"X-Custom", "Authorization"}
HeadersArgs ==
    {Val(<< <<"X-Custom", HStr("1")>>, <<"AUTHORIZATION", HStr("x")>> >>),
     Undef}
ConfigArgs ==
    {[NoConfig EXCEPT !.apiKey = Val("valid-key-123456")],
     [NoConfig EXCEPT !.apiKey = Val("valid-key-123456"),
                      !.baseUrl = Val("https://custom.api.com"),
                      !.headers = Val(<< <<"X-Custom", HStr("1")>> >>)],
     [NoConfig EXCEPT !.apiKey = Val("bad key")],
     NoConfig}
EnvArgs ==
    {NoEnv,
     [NoEnv EXCEPT !.API_TOKEN = Val("valid-key-123456")],
     [NoEnv EXCEPT !.API_TOKEN = Val("valid-key-123456"),
                   !.BASE_URL = Val("https://custom.api.com"),
                   !.TIMEOUT = Val("15000")]}
Init ==
    /\ heap = <<>>
    /\ handles = <<>>
    /\ facades = {}
    /\ flights = <<>>
    /\ input = NoInput
    /\ builder = NoProp
    /\ client = NoClient
    /\ last = Idle
    /\ result = NoResult
    /\ requests = 0
    /\ transport = NoOutcome

\* new ClientBuilder(), part_027:14-15
NewBuilder ==
    /\ builder' = Val(Builder_new)
    /\ last' = Done("new ClientBuilder", NoErr, <<>>)
    /\ UNCHANGED <<objs, input, client, result, requests, transport>>

\* the static factories of the builder: no builder is returned when one
\* throws
FromApiKey ==
    \E k \in KeyArgs :
        LET r == Builder_fromApiKey(k)
        IN  /\ builder' = IF r.err = NoErr THEN Val(r.b) ELSE NoProp
            /\ last' = Done("fromApiKey", r.err, <<>>)
            /\ UNCHANGED <<objs, input, client, result, requests, transport>>

FromEnvironment ==
    \E env \in EnvArgs :
        LET r == Builder_fromEnvironment(env)
        IN  /\ builder' = IF r.err = NoErr THEN Val(r.b) ELSE NoProp
            /\ last' = Done("fromEnvironment", r.err, <<>>)
            /\ UNCHANGED <<objs, input, client, result, requests, transport>>

FromConfig ==
    \E cfg \in ConfigArgs :
        LET r == Builder_fromConfig(cfg)
        IN  /\ builder' = IF r.err = NoErr THEN Val(r.b) ELSE NoProp
            /\ last' = Done("fromConfig", r.err, <<>>)
            /\ UNCHANGED <<objs, input, client, result, requests, transport>>

\* the methods of a builder: it keeps what the method stored, also when the
\* method threw
WithApiKey ==
    /\ IsVal(builder)
    /\ \E k \in KeyArgs :
           LET r == Builder_withApiKey(builder.v, k)
           IN  /\ builder' = Val(r.b)
               /\ last' = [Done("withApiKey", r.err, <<>>) EXCEPT !.arg = k]
    /\ UNCHANGED <<objs, input, client, result, requests, transport>>

WithBaseUrl ==
    /\ IsVal(builder)
    /\ \E u \in UrlArgs :
           LET r == Builder_withBaseUrl(builder.v, u)
           IN  /\ builder' = Val(r.b)
               /\ last' = [Done("withBaseUrl", r.err, <<>>) EXCEPT !.arg = u]
    /\ UNCHANGED <<objs, input, client, result, requests, transport>>

WithTimeout ==
    /\ IsVal(builder)
    /\ \E t \in TimeoutArgs :
           LET r == Builder_withTimeout(builder.v, t)
           IN  /\ builder' = Val(r.b)
               /\ last' = [Done("withTimeout", r.err, <<>>) EXCEPT !.arg = t]
    /\ UNCHANGED <<objs, input, client, result, requests, transport>>

WithMaxRetries ==
    /\ IsVal(builder)
    /\ \E n \in RetryArgs :
           LET r == Builder_withMaxRetries(builder.v, n)
           IN  /\ builder' = Val(r.b)
               /\ last' = [Done("withMaxRetries", r.err, <<>>) EXCEPT !.arg = n]
    /\ UNCHANGED <<objs, input, client, result, requests, transport>>

WithUserAgent ==
    /\ IsVal(builder)
    /\ \E ua \in UserAgentArgs :
           LET r == Builder_withUserAgent(builder.v, ua)
           IN  /\ builder' = Val(r.b)
               /\ last' = [Done("withUserAgent", r.err, <<>>) EXCEPT !.arg = ua]
    /\ UNCHANGED <<objs, input, client, result, requests, transport>>

WithHeader ==
    /\ IsVal(builder)
    /\ \E name \in HeaderNameArgs :
           LET r == Builder_withHeader(builder.v, name, HStr("1"))
           IN  /\ builder' = Val(r.b)
               /\ last' = [Done("withHeader", r.err, <<>>)
                               EXCEPT !.arg = Val(<< <<name, HStr("1")>> >>)]
    /\ UNCHANGED <<objs, input, client, result, requests, transport>>

WithHeaders ==
    /\ IsVal(builder)
    /\ \E h \in HeadersArgs :
           LET r == Builder_withHeaders(builder.v, h)
           IN  /\ builder' = Val(r.b)
               /\ last' = [Done("withHeaders", r.err, <<>>) EXCEPT !.arg = h]
    /\ UNCHANGED <<objs, input, client, result, requests, transport>>

\* the constructions: the caller holds the client that was returned, or
\* none
Build ==
    /\ IsVal(builder)
    /\ client' = Builder_build(builder.v).client
    /\ last' = Done("build", Builder_build(builder.v).err,
                    Builder_build(builder.v).steps)
    /\ UNCHANGED <<objs, input, builder, result, requests, transport>>

NewClient ==
    \E cfg \in ConfigArgs :
        LET r == Client_new(ClientConfigOf(cfg))
        IN  /\ client' = r.client
            /\ last' = Done("new Client", r.err, r.steps)
            /\ UNCHANGED <<objs, input, builder, result, requests, transport>>

ClientFromEnvironment ==
    \E env \in EnvArgs :
        LET r == Client_fromEnvironment(env)
        IN  /\ client' = r.client
            /\ last' = Done("Client.fromEnvironment", r.err, r.steps)
            /\ UNCHANGED <<objs, input, builder, result, requests, transport>>

NewNvisy ==
    \E cfg \in ConfigArgs :
        LET r == Nvisy_new(NvisyConfigOf(cfg))
        IN  /\ client' = r.client
            /\ last' = Done("new Nvisy", r.err, r.steps)
            /\ UNCHANGED <<objs, input, builder, result, requests, transport>>

Next ==
    \/ NewBuilder \/ FromApiKey \/ FromEnvironment \/ FromConfig
    \/ WithApiKey \/ WithBaseUrl \/ WithTimeout \/ WithMaxRetries
    \/ WithUserAgent \/ WithHeader \/ WithHeaders \/ Build
    \/ NewClient \/ ClientFromEnvironment

Spec == Init /\ [][Next]_vars

(***************************************************************************)
(* Every construction path on one input: the configuration object and the  *)
(* environment are drawn at the start, and each action runs one complete   *)
(* path on them.                                                           *)
(***************************************************************************)
ValidKey == "valid-key-123456"
EnvKey == "env-key-123456"

TokenMarks == {"", "_", "-", ".", " ", "!", "\t"}

\* strings around the rules of the credential: a run of letters, one mark,
\* at most one digit, with or without white space around them
TokenStrings ==
    {Rep(" ", l) \o Rep("k", n) \o c \o Rep("9", m) \o Rep(" ", r) :
        l \in 0..MaxPad, r \in 0..MaxPad,
        n \in {0} \cup (MinTokenLen - 2)..MaxRun, m \in 0..1,
        c \in TokenMarks}

UrlStrings ==
    {"https://api.nvisy.com", "http://localhost:8080", "invalid-url", "",
     "ftp://invalid-protocol.com", "localhost:8080", "//api.nvisy.com",
     "https://", "HTTPS://API.NVISY.COM/v1", "https://exa mple.com",
     "mailto:a@b", "/relative/path", "https://custom.api.com"}

HeaderNames ==
    {"X-Custom", "X-Request-ID", "Authorization", "authorization",
     "AUTHORIZATION", "Content-Type", "content-type", "User-Agent",
     "USER-AGENT", "", "Bad Name", "X-Auth"}

HeaderObjects ==
    {<< <<n, HStr("v")>> >> : n \in HeaderNames}
    \cup {<< <<"X-Custom", HStr("1")>>, <<n, HStr("v")>> >> :
             n \in HeaderNames \ {"X-Custom"}}
    \cup {EmptyObject, << <<"X-Custom", HNum("1")>> >>}

UserAgentStrings == {"MyApp/1.0", "", "  "}

TimeoutNumbers ==
    {Num(25000), Num(MinTimeout), Num(MinTimeout - 1), Num(MaxTimeout),
     Num(MaxTimeout + 1), Num(0), Frac(1500, 5), NaN}
RetryNumbers ==
    {Num(1), Num(MinRetries), Num(MinRetries - 1), Num(MaxRetries),
     Num(MaxRetries + 1), Num(10), Num(11), Frac(2, 5), NaN}
EnvNumberStrings == {"10000", "4", "abc", "0", "", "999", "1500.5", "11"}

Props(S) == {Val(x) : x \in S} \cup {NoProp, Undef}
EnvProps(S) == {Val(x) : x \in S} \cup {NoProp}

BaseInput == [NoInput EXCEPT !.cfg.apiKey = Val(ValidKey)]
BaseEnvInput == [NoInput EXCEPT !.env.API_TOKEN = Val(EnvKey)]

TokenInputs ==
    {[NoInput EXCEPT !.cfg.apiKey = k] : k \in Props(TokenStrings)}
    \cup {[NoInput EXCEPT !.env.API_TOKEN = k] : k \in EnvProps(TokenStrings)}

UrlInputs ==
    {[BaseInput EXCEPT !.cfg.baseUrl = u] : u \in Props(UrlStrings)}
    \cup {[BaseEnvInput EXCEPT !.env.BASE_URL = u] :
             u \in EnvProps(UrlStrings)}

HeaderInputs ==
    {[BaseInput EXCEPT !.cfg.headers = h] : h \in Props(HeaderObjects)}

UserAgentInputs ==
    {[BaseInput EXCEPT !.cfg.userAgent = ua] : ua \in Props(UserAgentStrings)}
    \cup {[BaseEnvInput EXCEPT !.env.USER_AGENT = ua] :
             ua \in EnvProps(UserAgentStrings)}

NumberInputs ==
    {[BaseInput EXCEPT !.cfg.timeout = t] : t \in Props(TimeoutNumbers)}
    \cup {[BaseInput EXCEPT !.cfg.maxRetries = n] : n \in Props(RetryNumbers)}
    \cup {[BaseEnvInput EXCEPT !.env.TIMEOUT = t, !.env.MAX_RETRIES = n] :
             t \in EnvProps(EnvNumberStrings),
             n \in EnvProps(EnvNumberStrings)}

\* an explicit value and an environment value for the same setting, each
\* present or not
PrecedenceInputs ==
    {[cfg |-> [NoConfig EXCEPT !.apiKey = k, !.baseUrl = u, !.userAgent = ua],
      env |-> [NoEnv EXCEPT !.API_TOKEN = ek, !.BASE_URL = eu,
                            !.USER_AGENT = eua]] :
        k \in {Val(ValidKey), NoProp}, ek \in {Val(EnvKey), NoProp},
        u \in Props({"https://custom.api.com"}),
        eu \in EnvProps({"https://env.api.com"}),
        ua \in Props({"MyApp/1.0"}), eua \in EnvProps({"EnvApp/2.0"})}
    \cup
    {[cfg |-> [NoConfig EXCEPT !.apiKey = Val(ValidKey), !.timeout = t,
                               !.maxRetries = n],
      env |-> [NoEnv EXCEPT !.API_TOKEN = ek, !.TIMEOUT = et,
                            !.MAX_RETRIES = en]] :
        ek \in {Val(EnvKey), NoProp},
        t \in Props({Num(25000)}), et \in EnvProps({"10000"}),
        n \in Props({Num(1)}), en \in EnvProps({"4"})}

Inputs ==
    TokenInputs \cup UrlInputs \cup HeaderInputs \cup UserAgentInputs
    \cup NumberInputs \cup PrecedenceInputs

\* new ClientBuilder().withApiKey(..).withBaseUrl(..)...: one withX call
\* for every field the configuration object gives a value
Builder_fluent(cfg) ==
    LET r1 == IF IsVal(cfg.apiKey)
              THEN Builder_withApiKey(Builder_new, cfg.apiKey)
              ELSE Ok(Builder_new)
        r2 == Then(r1, LAMBDA b : IF IsVal(cfg.baseUrl)
                                  THEN Builder_withBaseUrl(b, cfg.baseUrl)
                                  ELSE Ok(b))
        r3 == Then(r2, LAMBDA b : IF IsVal(cfg.timeout)
                                  THEN Builder_withTimeout(b, cfg.timeout)
                                  ELSE Ok(b))
        r4 == Then(r3, LAMBDA b : IF IsVal(cfg.maxRetries)
                                  THEN Builder_withMaxRetries(b, cfg.maxRetries)
                                  ELSE Ok(b))
        r5 == Then(r4, LAMBDA b : IF IsVal(cfg.headers)
                                  THEN Builder_withHeaders(b, cfg.headers)
                                  ELSE Ok(b))
    IN  Then(r5, LAMBDA b : IF IsVal(cfg.userAgent)
                            THEN Builder_withUserAgent(b, cfg.userAgent)
                            ELSE Ok(b))

\* .build() at the end of a chain: it is not reached when a call before it
\* threw
BuildOf(r) ==
    IF r.err # NoErr
    THEN [err |-> r.err, client |-> NoClient, steps |-> <<>>]
    ELSE Builder_build(r.b)

InitResolve ==
    /\ heap = <<>>
    /\ handles = <<>>
    /\ facades = {}
    /\ flights = <<>>
    /\ input \in Inputs
    /\ builder = NoProp
    /\ client = NoClient
    /\ last = Idle
    /\ result = NoResult
    /\ requests = 0
    /\ transport = NoOutcome

NewClientOnInput ==
    LET r == Client_new(ClientConfigOf(input.cfg))
    IN  /\ client' = r.client
        /\ last' = Done("new Client", r.err, r.steps)
        /\ builder' = NoProp
        /\ UNCHANGED <<objs, input, result, requests, transport>>

ClientFromEnvironmentOnInput ==
    LET r == Client_fromEnvironment(input.env)
    IN  /\ client' = r.client
        /\ last' = Done("Client.fromEnvironment", r.err, r.steps)
        /\ builder' = NoProp
        /\ UNCHANGED <<objs, input, result, requests, transport>>

NewNvisyOnInput ==
    LET r == Nvisy_new(NvisyConfigOf(input.cfg))
    IN  /\ client' = r.client
        /\ last' = Done("new Nvisy", r.err, r.steps)
        /\ builder' = NoProp
        /\ UNCHANGED <<objs, input, result, requests, transport>>

FluentBuildOnInput ==
    LET b == Builder_fluent(input.cfg)
        r == BuildOf(b)
    IN  /\ client' = r.client
        /\ last' = Done("withX.build", r.err, r.steps)
        /\ builder' = Val(b.b)
        /\ UNCHANGED <<objs, input, result, requests, transport>>

FromConfigBuildOnInput ==
    LET b == Builder_fromConfig(input.cfg)
        r == BuildOf(b)
    IN  /\ client' = r.client
        /\ last' = Done("fromConfig.build", r.err, r.steps)
        /\ builder' = IF b.err = NoErr THEN Val(b.b) ELSE NoProp
        /\ UNCHANGED <<objs, input, result, requests, transport>>

FromEnvironmentBuildOnInput ==
    LET b == Builder_fromEnvironment(input.env)
        r == BuildOf(b)
    IN  /\ client' = r.client
        /\ last' = Done("fromEnvironment.build", r.err, r.steps)
        /\ builder' = IF b.err = NoErr THEN Val(b.b) ELSE NoProp
        /\ UNCHANGED <<objs, input, result, requests, transport>>

ResolveConfigOnInput ==
    /\ last' = [Done("resolveConfig", NoErr, <<>>)
                    EXCEPT !.ret = Val(resolveConfig(input.cfg, input.env))]
    /\ client' = NoClient
    /\ builder' = NoProp
    /\ UNCHANGED <<objs, input, result, requests, transport>>

NextResolve ==
    \/ NewClientOnInput \/ ClientFromEnvironmentOnInput \/ NewNvisyOnInput
    \/ FluentBuildOnInput \/ FromConfigBuildOnInput
    \/ FromEnvironmentBuildOnInput \/ ResolveConfigOnInput

SpecResolve == InitResolve /\ [][NextResolve]_vars

(***************************************************************************)
(* The errors a caller can catch: those of constructions that are          *)
(* rejected, those of requests of a client whose transport answers with    *)
(* any status and body or fails, and the API errors of part_047.           *)
(***************************************************************************)
Statuses ==
    {0, 200, 204, 299, 300, 304, 399, 400, 401, 404, 407, 408, 409, 428, 429,
     430, 499, 500, 502, 503, 599}

\* the transport answers the request
Respond ==
    /\ client # NoClient
    /\ requests < MaxCalls
    /\ \E st \in Statuses, body \in Bodies \cup {DataBody} :
           /\ result' = Service_call(client, Answered(Response(st, body)))
           /\ transport' = Answered(Response(st, body))
    /\ requests' = requests + 1
    /\ UNCHANGED <<objs, input, builder, client, last>>

\* the transport fails
TransportFails ==
    /\ client # NoClient
    /\ requests < MaxCalls
    /\ \E e \in FetchErrors :
           /\ result' = Service_call(client, Failed(e))
           /\ transport' = Failed(e)
    /\ requests' = requests + 1
    /\ UNCHANGED <<objs, input, builder, client, last>>

\* ApiError.fromResponse of part_047 on an error response
RaiseFromResponse ==
    /\ \E st \in Statuses \ {200, 204, 299},
          body \in {RateLimitBody, EmptyBody} :
           result' = Thrown(ApiErrorV1_fromResponse(
                                Response(st, body), Val(body.value)))
    /\ transport' = NoOutcome
    /\ UNCHANGED <<objs, input, builder, client, last, requests>>

\* an API error of part_047 that was given no status
RaiseWithoutStatus ==
    /\ result' = Thrown(ApiErrorV1_new("No status", Undef, Undef))
    /\ transport' = NoOutcome
    /\ UNCHANGED <<objs, input, builder, client, last, requests>>

RetryAfterArgs ==
    {NoProp, Val(Num(30)), Val(Num(1)), Val(Num(0)), Val(Frac(1, 5)),
     Val(Num(120))}

\* ApiError.rateLimited(retryAfter) of part_047
RaiseRateLimited ==
    /\ \E n \in RetryAfterArgs :
           /\ result' = Thrown(ApiErrorV1_rateLimited(n))
           /\ last' = [Done("ApiError.rateLimited", NoErr, <<>>)
                           EXCEPT !.arg = n]
    /\ transport' = NoOutcome
    /\ UNCHANGED <<objs, input, builder, client, requests>>

NextErrors ==
    \/ NewClient \/ NewNvisy \/ Respond \/ TransportFails
    \/ RaiseFromResponse \/ RaiseWithoutStatus \/ RaiseRateLimited

SpecErrors == Init /\ [][NextErrors]_vars

(***************************************************************************)
(* Objects held by reference.  A client keeps its header map and its       *)
(* dispatcher by reference, so which client holds which object is state of *)
(* its own: SpecHandles constructs clients, derives clients from them,     *)
(* takes services from their accessors and lets the caller write to the    *)
(* header map it handed in.                                                *)
(***************************************************************************)
MaxHandles == 2

Services == {"auth", "documents"}

HeapObject(kind, owner, value) ==
    [kind |-> kind, owner |-> owner, value |-> value]

\* the configuration a caller writes, its header map being an object of the
\* heap, as the constructor reads it
ConfigRead(config, hp) ==
    [config EXCEPT !.headers = IF IsVal(@) THEN Val(hp[@.v].value) ELSE @]

\* createClient(), once for each time the constructor ran it: the
\* dispatchers a construction puts on the heap
RECURSIVE Dispatchers(_, _)
Dispatchers(steps, api) ==
    IF steps = <<>> THEN <<>>
    ELSE (IF Head(steps) = "createClient"
          THEN <<HeapObject("api", "client", api)>> ELSE <<>>)
         \o Dispatchers(Tail(steps), api)

\* { ...defaults, ...config }: a property the object has, undefined
\* included, replaces the default
Over(default, prop) ==
    IF prop = NoProp THEN default ELSE IF IsVal(prop) THEN prop.v ELSE Undef

\* new NvisyClient(config), part_025:12-25
NvisyClient_new(config) ==
    IF ~IsVal(config.apiKey) \/ config.apiKey.v = ""
    THEN [err |-> [kind |-> "Error", message |-> "API key is required"],
          client |-> NoClient, steps |-> <<>>]
    ELSE [err |-> NoErr,
          client |-> [class |-> "NvisyClient",
                      config |-> [apiKey |-> config.apiKey.v,
                                  baseUrl |-> Over("https://api.nvisy.com",
                                                   config.baseUrl),
                                  timeout |-> Over(Num(30000),
                                                   config.timeout),
                                  maxRetries |-> Over(Num(3),
                                                      config.maxRetries),
                                  headers |-> Over(EmptyObject,
                                                   config.headers)],
                      api |-> NoProp],
          steps |-> <<>>]

\* new Client(config), new Nvisy(config) and new NvisyClient(config) on the
\* heap: `config.headers ?? {}`, and the spread of part_025, keep the
\* reference they are given and allocate a map only when given none, and
\* #createApiClient allocates the dispatcher; a client with no dispatcher
\* has the reference 0
Handle_new(class, config, parent, hp) ==
    LET r == CASE class = "Nvisy" -> Nvisy_new(ConfigRead(config, hp))
               [] class = "NvisyClient" ->
                      NvisyClient_new(ConfigRead(config, hp))
               [] OTHER -> Client_new(ConfigRead(config, hp))
        hp1 == IF IsVal(config.headers) THEN hp
               ELSE Append(hp, HeapObject("headers", "client", EmptyObject))
        href == IF IsVal(config.headers) THEN config.headers.v ELSE Len(hp1)
        hp2 == hp1 \o Dispatchers(r.steps, r.client.api)
    IN  IF r.err # NoErr
        THEN [err |-> r.err, steps |-> r.steps, heap |-> hp,
              handle |-> NoClient]
        ELSE [err |-> NoErr, steps |-> r.steps, heap |-> hp2,
              handle |-> [class |-> class, parent |-> parent,
                          config |-> [r.client.config
                                          EXCEPT !.headers = href],
                          api |-> IF Len(hp2) = Len(hp1) THEN 0
                                  ELSE Len(hp2),
                          born |-> r.client]]

\* what a client is now: its #config and #api with the references followed
Deref(h, hp) ==
    [class |-> h.class,
     config |-> [h.config EXCEPT !.headers = hp[@].value],
     api |-> IF h.api = 0 THEN NoProp ELSE hp[h.api].value]

\* withApiToken, part_026:178-180: { ...this.#config, apiToken } copies the
\* properties of #config, and the headers property is a reference
Nvisy_withApiToken(h, i, apiToken, hp) ==
    Handle_new("Nvisy",
               [apiToken |-> Val(apiToken),
                baseUrl |-> Val(h.config.baseUrl),
                headers |-> Val(h.config.headers),
                userAgent |-> Val(h.config.userAgent),
                withLogging |-> Val(h.config.withLogging)],
               i, hp)

\* a faulty variant: the service is given no dispatcher of the client
Client_service_detached(h, i, service) ==
    [owner |-> i, service |-> service, api |-> 0]

\* an accessor, client.ts:223-225 and part_026:206-208: new X(this.#api)
Client_service(h, i, service) ==
    [owner |-> i, service |-> service, api |-> h.api]

NewHandle ==
    /\ Len(handles) < MaxHandles
    /\ \E class \in {"Client", "Nvisy"}, key \in {Val(ValidKey), Val("short")},
          own \in BOOLEAN :
          LET hp == IF own
                    THEN Append(heap,
                                HeapObject("headers", "caller",
                                           << <<"X-Custom", HStr("1")>> >>))
                    ELSE heap
              cfg == [ClientConfigOf(NoConfig)
                          EXCEPT !.apiToken = key,
                                 !.headers = IF own THEN Val(Len(hp))
                                             ELSE NoProp]
              r == Handle_new(class,
                              IF class = "Nvisy"
                              THEN [NvisyConfigOf(NoConfig)
                                        EXCEPT !.apiToken = key,
                                               !.headers = cfg.headers]
                              ELSE cfg,
                              0, hp)
          IN  \* a map no client was built on is garbage
              /\ heap' = IF r.err = NoErr THEN r.heap ELSE heap
              /\ handles' = IF r.err = NoErr THEN Append(handles, r.handle)
                            ELSE handles
              /\ last' = Done("new " \o class, r.err, r.steps)
    /\ UNCHANGED <<flights, facades, input, builder, client, result, requests,
                   transport>>

DeriveWithApiToken ==
    /\ Len(handles) < MaxHandles
    /\ \E i \in 1..Len(handles), apiToken \in {"other-key-123456", "short"} :
          /\ handles[i].class = "Nvisy"
          /\ LET r == Nvisy_withApiToken(handles[i], i, apiToken, heap)
             IN  /\ heap' = r.heap
                 /\ handles' = IF r.err = NoErr
                               THEN Append(handles, r.handle)
                               ELSE handles
                 /\ last' = Done("withApiToken", r.err, r.steps)
    /\ UNCHANGED <<flights, facades, input, builder, client, result, requests,
                   transport>>

\* the caller writes to the header map it handed to a constructor
MutateHeaders ==
    \E ref \in 1..Len(heap) :
        /\ heap[ref].kind = "headers"
        /\ heap[ref].owner = "caller"
        /\ ~HasKey(heap[ref].value, "X-Later")
        /\ heap' = [heap EXCEPT ![ref].value =
                                    SetKey(@, "X-Later", HStr("1"))]
        /\ last' = Done("headers[k] = v", NoErr, <<>>)
        /\ UNCHANGED <<flights, handles, facades, input, builder, client,
                       result, requests, transport>>

Access ==
    \E i \in 1..Len(handles), service \in Services :
        /\ facades' = facades \union
                          {Client_service(handles[i], i, service)}
        /\ last' = Done("get " \o service, NoErr, <<>>)
        /\ UNCHANGED <<flights, heap, handles, input, builder, client, result,
                       requests, transport>>

NextHandles ==
    \/ NewHandle
    \/ DeriveWithApiToken
    \/ MutateHeaders
    \/ Access

SpecHandles == Init /\ [][NextHandles]_vars

(***************************************************************************)
(* A builder and the clients it builds, by reference.  The builder's       *)
(* #config holds its header map by reference; SpecBuilders starts one      *)
(* builder, of part_027 (it builds a Client) or of client-builder.ts (it   *)
(* builds a NvisyClient), calls its header methods and build() in any      *)
(* order, and lets the caller write to the maps it handed in.  Here        *)
(* `builder` is the #config with a field `makes` for the class built and   *)
(* with the reference of the header map in `headers`.                      *)
(***************************************************************************)
MaxMaps == 1

BuilderKinds == {"Client", "NvisyClient"}

\* the outcome of a header method of part_027, computed on the entries, put
\* on the heap: #config.headers = {} allocates a map when there is none,
\* and #config.headers[name] = value writes to the map that is there
Builder_store(b, r, hp) ==
    IF r.b.headers = ConfigRead(b, hp).headers
    THEN [err |-> r.err, b |-> b, heap |-> hp]
    ELSE IF IsVal(b.headers)
    THEN [err |-> r.err, b |-> b,
          heap |-> [hp EXCEPT ![b.headers.v].value = r.b.headers.v]]
    ELSE [err |-> r.err, b |-> [b EXCEPT !.headers = Val(Len(hp) + 1)],
          heap |-> Append(hp, HeapObject("headers", "builder",
                                         r.b.headers.v))]

\* headers(headers), client-builder.ts:50-53: the caller's map is stored
ClientBuilder_headers(b, ref, hp) ==
    [err |-> NoErr, b |-> [b EXCEPT !.headers = Val(ref)], heap |-> hp]

\* header(name, value), client-builder.ts:58-64
ClientBuilder_header(b, name, value, hp) ==
    LET hp1 == IF IsVal(b.headers) THEN hp
               ELSE Append(hp, HeapObject("headers", "builder", EmptyObject))
        ref == IF IsVal(b.headers) THEN b.headers.v ELSE Len(hp1)
    IN  [err |-> NoErr, b |-> [b EXCEPT !.headers = Val(ref)],
         heap |-> [hp1 EXCEPT ![ref].value = SetKey(@, name, value)]]

\* ClientBuilder.fromApiKey(key), part_027:20-22, and new
\* ClientBuilder(apiKey), client-builder.ts:11-13
StartBuilder ==
    /\ builder = NoProp
    /\ \E kind \in BuilderKinds :
          /\ builder' = Val([makes |-> kind]
                                @@ [Builder_new
                                        EXCEPT !.apiKey = Val(ValidKey)])
          /\ last' = Done("new ClientBuilder", NoErr, <<>>)
    /\ UNCHANGED <<objs, input, client, result, requests, transport>>

\* withHeader(name, value) and header(name, value)
HeaderCall ==
    /\ IsVal(builder)
    /\ \E name \in {"H1", "H2"} :
          LET b == builder.v
              r == IF b.makes = "Client"
                   THEN Builder_store(b,
                            Builder_withHeader(ConfigRead(b, heap), name,
                                               HStr("one")),
                            heap)
                   ELSE ClientBuilder_header(b, name, HStr("one"), heap)
          IN  /\ builder' = Val(r.b)
              /\ heap' = r.heap
              /\ last' = [Done("header", r.err, <<>>)
                              EXCEPT !.arg = Val(<< <<name, HStr("one")>> >>)]
    /\ UNCHANGED <<flights, handles, facades, input, client, result, requests,
                   transport>>

\* withHeaders(headers) and headers(headers), on a map the caller made
HeadersCall ==
    /\ IsVal(builder)
    /\ Cardinality({ref \in 1..Len(heap) : heap[ref].owner = "caller"})
           < MaxMaps
    /\ \E h \in {<< <<"H1", HStr("all")>> >>,
                 << <<"H2", HStr("all")>>, <<"H3", HStr("all")>> >>} :
          LET b == builder.v
              hp == Append(heap, HeapObject("headers", "caller", h))
              r == IF b.makes = "Client"
                   THEN Builder_store(b,
                            Builder_withHeaders(ConfigRead(b, hp), Val(h)),
                            hp)
                   ELSE ClientBuilder_headers(b, Len(hp), hp)
          IN  /\ builder' = Val(r.b)
              /\ heap' = r.heap
              /\ last' = [Done("headers", r.err, <<>>) EXCEPT !.arg = Val(h)]
    /\ UNCHANGED <<flights, handles, facades, input, client, result, requests,
                   transport>>

\* build(), part_027:171-177 and client-builder.ts:69-71
BuildCall ==
    /\ IsVal(builder)
    /\ Len(handles) < MaxHandles
    /\ LET b == builder.v
           r == IF b.makes = "Client"
                THEN IF Builder_build(ConfigRead(b, heap)).err # NoErr
                     THEN [err |-> Builder_build(ConfigRead(b, heap)).err,
                           steps |-> <<>>, heap |-> heap,
                           handle |-> NoClient]
                     ELSE Handle_new("Client",
                                     [apiToken |-> b.apiKey,
                                      baseUrl |-> b.baseUrl,
                                      headers |-> b.headers,
                                      userAgent |-> b.userAgent],
                                     0, heap)
                ELSE Handle_new("NvisyClient",
                                [apiKey |-> b.apiKey, baseUrl |-> b.baseUrl,
                                 timeout |-> b.timeout,
                                 maxRetries |-> b.maxRetries,
                                 headers |-> b.headers],
                                0, heap)
       IN  /\ heap' = r.heap
           /\ handles' = IF r.err = NoErr THEN Append(handles, r.handle)
                         ELSE handles
           /\ last' = Done("build", r.err, r.steps)
    /\ UNCHANGED <<flights, facades, input, builder, client, result, requests,
                   transport>>

NextBuilders ==
    \/ StartBuilder
    \/ HeaderCall
    \/ HeadersCall
    \/ BuildCall
    \/ MutateHeaders

SpecBuilders == Init /\ [][NextBuilders]_vars

(***************************************************************************)
(* Requests in flight.  A service call is three steps that the calls of    *)
(* one client interleave freely: the request is sent with the headers of   *)
(* the dispatcher, the transport settles it with a response or a failure,  *)
(* and the middleware hands the caller what it makes of that.  `transport` *)
(* is what the transport did last, for whichever request.                  *)
(***************************************************************************)
MaxFlights == 2

FlightOutcomes ==
    {Answered(Response(200, DataBody)),
     Answered(Response(404, ValidationBody)),
     Answered(Response(429, RateLimitBody))}
    \cup {Failed(e) : e \in FetchErrors}

\* a faulty variant: the middleware works on the latest answer of the
\* transport, not on the answer to its own request
Flight_deliver_latest(c, flight, latest) == Service_call(c, latest)

\* onResponse({ response }) and onError({ error }), error.ts:10-27: each
\* hook is handed the response, or the failure, of its own request
Flight_deliver(c, flight, latest) == Service_call(c, flight.outcome)

\* the one client the requests are made on
StartClient ==
    /\ client = NoClient
    /\ \E class \in {"Client", "Nvisy"}, logging \in {NoProp, Val(TRUE)} :
          LET r == IF class = "Nvisy"
                   THEN Nvisy_new([NvisyConfigOf(BaseInput.cfg)
                                       EXCEPT !.withLogging = logging])
                   ELSE Client_new(ClientConfigOf(BaseInput.cfg))
          IN  /\ client' = r.client
              /\ last' = Done("new " \o class, r.err, r.steps)
    /\ UNCHANGED <<objs, input, builder, result, requests, transport>>

\* this.#api.GET(...): the request leaves with the dispatcher's headers
Send ==
    /\ client # NoClient
    /\ Len(flights) < MaxFlights
    /\ flights' = Append(flights,
                         [state |-> "sent", headers |-> client.api.headers,
                          overlaps |-> \E k \in 1..Len(flights) :
                                           flights[k].state # "done",
                          outcome |-> NoOutcome, result |-> NoResult])
    /\ requests' = requests + 1
    /\ UNCHANGED <<heap, handles, facades, input, builder, client, last,
                   result, transport>>

\* the transport answers a request in flight, or fails it
Settle ==
    \E k \in 1..Len(flights), o \in FlightOutcomes :
        /\ flights[k].state = "sent"
        /\ flights' = [flights EXCEPT ![k].state = "settled",
                                      ![k].outcome = o]
        /\ transport' = o
        /\ UNCHANGED <<heap, handles, facades, input, builder, client, last,
                       result, requests>>

\* the middleware runs on a settled request and the caller gets the result
Deliver ==
    \E k \in 1..Len(flights) :
        /\ flights[k].state = "settled"
        /\ flights' = [flights EXCEPT
                           ![k].state = "done",
                           ![k].result = Flight_deliver(client, flights[k],
                                                        transport)]
        /\ result' = Flight_deliver(client, flights[k], transport)
        /\ UNCHANGED <<heap, handles, facades, input, builder, client, last,
                       requests, transport>>

NextFlights ==
    \/ StartClient
    \/ Send
    \/ Settle
    \/ Deliver

SpecFlights == Init /\ [][NextFlights]_vars

(***************************************************************************)
(* Properties.                                                             *)
(***************************************************************************)
ConstructionOps ==
    {"build", "new Client", "Client.fromEnvironment", "new Nvisy",
     "withX.build", "fromConfig.build", "fromEnvironment.build"}

\* the paths that read the configuration object, and those that read the
\* environment
CfgOps == {"new Client", "new Nvisy", "withX.build", "fromConfig.build"}
EnvOps == {"Client.fromEnvironment", "fromEnvironment.build"}

\* the place of a step among the steps that ran, 0 if it did not run
StepIndex(steps, x) ==
    IF \E i \in 1..Len(steps) : steps[i] = x
    THEN CHOOSE i \in 1..Len(steps) : steps[i] = x
    ELSE 0

\* C1: on every construction path the configuration is validated before
\* the dispatcher is created: a construction that raised an error created no
\* dispatcher, left the caller without a client and so without a way to
\* issue a request, and a construction that succeeded validated first.
C1_ValidationBeforeDispatcher ==
    last.op \in ConstructionOps =>
        /\ last.err # NoErr =>
               /\ StepIndex(last.steps, "createClient") = 0
               /\ client = NoClient
               /\ ~ENABLED Respond
               /\ ~ENABLED TransportFails
        /\ last.err = NoErr =>
               /\ client # NoClient
               /\ 0 < StepIndex(last.steps, "validateApiToken")
               /\ StepIndex(last.steps, "validateApiToken")
                      < StepIndex(last.steps, "createClient")

\* a construction was rejected with a ConfigError after validation ran
C1_Witness ==
    /\ last.op = "new Client"
    /\ last.err.kind = "ConfigError"
    /\ last.steps = <<"validateApiToken">>
    /\ IsVal(builder)

\* C2: new Client(config) succeeds exactly when the withX calls for the same
\* fields followed by build() succeed, and so does the fromConfig factory;
\* a failure is a ConfigError.
C2_DirectEqualsBuilder ==
    last.op \in {"new Client", "fromConfig.build"} =>
        /\ (last.err = NoErr)
               <=> (BuildOf(Builder_fluent(input.cfg)).err = NoErr)
        /\ last.err # NoErr => last.err.kind = "ConfigError"

\* the credential a path reads
Credential ==
    IF last.op \in EnvOps THEN input.env.API_TOKEN ELSE input.cfg.apiKey

\* a credential whose trimmed form has at least 10 characters, all of them
\* letters, digits, "_" or "-"
ValidCredential(k) ==
    /\ IsVal(k)
    /\ Len(Trim(k.v)) >= 10
    /\ \A i \in 1..Len(Trim(k.v)) :
           Char(Trim(k.v), i) \in Alpha \cup Digits \cup {"_", "-"}

\* the settings other than the credential are ones the builder accepts
OthersValid ==
    IF last.op \in EnvOps
    THEN Builder_fromEnvironment(
             [input.env EXCEPT !.API_TOKEN = Val(ValidKey)]).err = NoErr
    ELSE Builder_fluent([input.cfg EXCEPT !.apiKey = Val(ValidKey)]).err
             = NoErr

\* C3: a credential that is valid once trimmed is accepted on every path,
\* and the credential stored in the client's configuration, in the builder
\* and in the Authorization header is the trimmed one.
C3_TrimmedCredentialStored ==
    (last.op \in CfgOps \cup EnvOps /\ ValidCredential(Credential)
         /\ OthersValid) =>
        /\ last.err = NoErr
        /\ client # NoClient
        /\ client.config.apiToken = Trim(Credential.v)
        /\ GetKey(client.api.headers, "Authorization")
               = Val(HStr("Bearer " \o Trim(Credential.v)))
        /\ IsVal(builder) => builder.v.apiKey = Val(Trim(Credential.v))

\* a credential with white space around it went through the constructor
C3_Witness ==
    /\ last.op = "new Client"
    /\ ValidCredential(Credential)
    /\ Credential.v # Trim(Credential.v)
    /\ client # NoClient

\* a credential that is given and is too short once trimmed, or has a
\* character outside the set
BadCredential(k, allowed) ==
    /\ IsVal(k)
    /\ \/ Len(Trim(k.v)) < 10
       \/ \E i \in 1..Len(Trim(k.v)) : Char(Trim(k.v), i) \notin allowed

CredentialFields == {"apiToken", "apiKey", "NVISY_API_TOKEN"}

Expected(explicit, environment, default) ==
    IF IsVal(explicit) THEN explicit.v
    ELSE IF IsVal(environment) THEN environment.v
    ELSE default

ExpectedKey == Expected(input.cfg.apiKey, input.env.API_TOKEN, "")
ExpectedBaseUrl ==
    Expected(input.cfg.baseUrl, input.env.BASE_URL, DEFAULTS_BASE_URL)
ExpectedUserAgent ==
    Expected(input.cfg.userAgent, input.env.USER_AGENT, buildUserAgent)
ExpectedTimeout ==
    Expected(input.cfg.timeout, EnvNumber(input.env.TIMEOUT),
             Num(DEFAULT_TIMEOUT))
ExpectedMaxRetries ==
    Expected(input.cfg.maxRetries, EnvNumber(input.env.MAX_RETRIES),
             Num(DEFAULT_MAX_RETRIES))

\* C5: for the credential, baseUrl, userAgent, timeout and maxRetries the
\* resolved value is the explicit one when given, else the environment's
\* when set, else the default; for resolveConfig, for direct construction
\* and for the builder.
C5_Precedence ==
    input \in PrecedenceInputs =>
        /\ last.op = "resolveConfig" =>
               /\ last.ret.v.apiKey = ExpectedKey
               /\ last.ret.v.baseUrl = ExpectedBaseUrl
               /\ last.ret.v.timeout = ExpectedTimeout
               /\ last.ret.v.maxRetries = ExpectedMaxRetries
        /\ (last.op \in {"new Client", "withX.build"} /\ ExpectedKey # "") =>
               /\ last.err = NoErr
               /\ client # NoClient
               /\ client.config.apiToken = ExpectedKey
               /\ client.config.baseUrl = ExpectedBaseUrl
               /\ client.config.userAgent = ExpectedUserAgent

\* the extra headers of the configuration name a reserved header, in any
\* case
HasReservedHeader(headers) ==
    /\ IsVal(headers)
    /\ \E i \in 1..Len(headers.v) :
           ToLowerCase(headers.v[i][1])
               \in {"authorization", "content-type", "user-agent"}

\* C6: on every construction path an extra header named authorization,
\* content-type or user-agent, in any case, fails the configuration with a
\* ConfigError, and no client holds such an extra header.
C6_ReservedHeadersRejected ==
    /\ (last.op \in CfgOps /\ HasReservedHeader(input.cfg.headers)) =>
           /\ last.err.kind = "ConfigError"
           /\ client = NoClient
    /\ client # NoClient => ~HasReservedHeader(Val(client.config.headers))

\* a string that parses as an absolute URL of scheme http or https
AbsoluteHttpUrl(u) ==
    URL_new(u).ok /\ URL_new(u).protocol \in {"http:", "https:"}

\* the baseUrl a path reads
SuppliedBaseUrl ==
    IF last.op \in EnvOps THEN input.env.BASE_URL ELSE input.cfg.baseUrl

\* C7: the base address of a constructed client is the default or a
\* supplied string that parses as an absolute http or https URL, and a
\* supplied baseUrl that is none makes every construction path fail with a
\* ConfigError.
C7_BaseUrlValidated ==
    /\ client # NoClient =>
           \/ client.config.baseUrl = DEFAULTS_BASE_URL
           \/ AbsoluteHttpUrl(client.config.baseUrl)
    /\ (last.op \in CfgOps \cup EnvOps /\ IsVal(SuppliedBaseUrl)
            /\ ~AbsoluteHttpUrl(SuppliedBaseUrl.v)) =>
           /\ last.err.kind = "ConfigError"
           /\ client = NoClient

\* the error the caller caught last: that of a request, else that of a
\* construction
Caught ==
    IF result.tag = "thrown" THEN result.err ELSE last.err

HasStatus(e) == IsApiError(e) /\ IsVal(e.statusCode)

\* C8: isRetryable is true exactly for the API errors of status 408, 429 or
\* 500 and more, so false for every other 4xx status, and no configuration
\* or network error is retryable.
C8_RetryableStatuses ==
    /\ IsApiError(Caught) =>
           (isRetryable(Caught)
                <=> /\ HasStatus(Caught)
                    /\ \/ Caught.statusCode.v \in {408, 429}
                       \/ Caught.statusCode.v >= 500)
    /\ Caught.kind \in {"ConfigError", "NetworkError", "NvisyError"} =>
           ~isRetryable(Caught)

\* a request answered 408 raised an error that is retryable
C8_Witness ==
    /\ result.tag = "thrown"
    /\ result.err.kind = "ApiError"
    /\ result.err.statusCode = Val(408)
    /\ isRetryable(result.err)

\* C9: for an API error isClientError holds exactly when 400 <= status <
\* 500 and isServerError exactly when status >= 500; never both, and neither
\* for an error that has no status.
C9_ClientServerPartition ==
    IsApiError(Caught) =>
        /\ isClientError(Caught)
               <=> /\ HasStatus(Caught)
                   /\ Caught.statusCode.v >= 400
                   /\ Caught.statusCode.v < 500
        /\ isServerError(Caught)
               <=> (HasStatus(Caught) /\ Caught.statusCode.v >= 500)
        /\ ~(isClientError(Caught) /\ isServerError(Caught))
        /\ ~HasStatus(Caught) =>
               ~isClientError(Caught) /\ ~isServerError(Caught)

\* a request answered 500 raised a server error
C9_Witness ==
    /\ result.tag = "thrown"
    /\ result.err.kind = "ApiError"
    /\ result.err.statusCode = Val(500)
    /\ isServerError(result.err)
    /\ ~isClientError(result.err)

\* the latest request of a Client was answered with a status outside
\* 200..299 and a body that parses
ErrorResponseParsed ==
    /\ transport # NoOutcome
    /\ ~transport.failed
    /\ ~(transport.response.status >= 200 /\ transport.response.status <= 299)
    /\ transport.response.body.json

\* C10: a response outside 2xx whose body parses makes the adapter raise an
\* API error instead of returning the response; its name, message,
\* resource, suggestion and validation entries are those of the body and
\* its statusCode is the status of the response, so a 429 is retryable.
C10_ErrorBodyBecomesApiError ==
    ErrorResponseParsed =>
        /\ result.tag = "thrown"
        /\ result.err.kind \in {"ApiError", "NvisyApiError"}
        /\ result.err.name = Read(transport.response.body.value.name)
        /\ result.err.message = Read(transport.response.body.value.message)
        /\ result.err.resource = Read(transport.response.body.value.resource)
        /\ result.err.suggestion
               = Read(transport.response.body.value.suggestion)
        /\ result.err.kind = "ApiError" =>
               result.err.validationErrors
                   = Read(transport.response.body.value.validationErrors)
        /\ result.err.kind = "NvisyApiError" =>
               result.err.validation
                   = Read(transport.response.body.value.validation)
        /\ result.err.statusCode = Val(transport.response.status)
        /\ transport.response.status = 429 => isRetryable(result.err)

\* a 429 with the body {name: "RateLimited", message: "slow down"} was
\* raised as such an error
C10_Witness ==
    /\ ErrorResponseParsed
    /\ transport.response.status = 429
    /\ result.tag = "thrown"
    /\ result.err.kind = "ApiError"
    /\ result.err.name = Val("RateLimited")
    /\ result.err.message = Val("slow down")
    /\ result.err.statusCode = Val(429)

\* the latest service call was answered with a status outside 200..299 and
\* a body that does not parse
ErrorResponseUnparsed ==
    /\ transport.sent
    /\ ~transport.failed
    /\ ~ResponseOk(transport.response)
    /\ ~transport.response.body.json

\* C11: a response outside 2xx whose body does not parse still makes the
\* adapter raise an API error, with the message "HTTP {status}:
\* {statusText}", the status of the response and no structured field; the
\* exception of the parse never reaches the caller in its place.
C11_UnparseableBodyBecomesApiError ==
    ErrorResponseUnparsed =>
        /\ result.tag = "thrown"
        /\ IsApiError(result.err)
        /\ result.err.message
               = Val("HTTP " \o ToString(transport.response.status) \o ": "
                         \o transport.response.statusText)
        /\ result.err.statusCode = Val(transport.response.status)
        /\ result.err.name = Undef
        /\ result.err.resource = Undef
        /\ result.err.suggestion = Undef

\* the latest service call failed in the transport
TransportFailed == transport.sent /\ transport.failed

\* fetch threw the error of an abort
Aborted(error) == error.isError /\ error.name = "AbortError"

\* C12: a failure thrown by the transport is raised as a transport error:
\* as the aborted one when the failure is an abort, else as a connection
\* error whose cause is the failure; the two are never confused.
C12_TransportFailureClassified ==
    TransportFailed =>
        /\ result.tag = "thrown"
        /\ result.err.kind = "NetworkError"
        /\ Aborted(transport.error) => result.err = NetworkError_aborted
        /\ ~Aborted(transport.error) =>
               /\ result.err # NetworkError_aborted
               /\ result.err.cause = Val(transport.error)

\* the errors of the taxonomy: the API errors and the transport errors
TaxonomyKinds ==
    {"ApiError", "NvisyApiError", "ApiErrorV1", "NetworkError", "NvisyError"}

\* C13: whatever the transport does with the request of a service call, the
\* call returns the payload of a 2xx response or raises an error of the
\* taxonomy; nothing else reaches the caller.
C13_FailuresNormalized ==
    transport.sent =>
        \/ /\ result.tag = "returned"
           /\ ~transport.failed
           /\ ResponseOk(transport.response)
           /\ result.data = Val(transport.response.body.value)
        \/ /\ result.tag = "thrown"
           /\ result.err.kind \in TaxonomyKinds

WithOps ==
    {"withApiKey", "withBaseUrl", "withTimeout", "withMaxRetries",
     "withUserAgent", "withHeader", "withHeaders"}

\* an integer of the range lo..hi
IntegerIn(x, lo, hi) ==
    IsVal(x) /\ ~x.v.nan /\ x.v.f = 0 /\ x.v.i >= lo /\ x.v.i <= hi

\* the argument of the latest builder method is not a value the field
\* admits
InvalidArg ==
    CASE last.op = "withApiKey" -> ~ValidCredential(last.arg)
      [] last.op = "withBaseUrl" ->
             ~(IsVal(last.arg) /\ AbsoluteHttpUrl(last.arg.v))
      [] last.op = "withTimeout" -> ~IntegerIn(last.arg, 1000, 300000)
      [] last.op = "withMaxRetries" -> ~IntegerIn(last.arg, 0, 5)
      [] last.op = "withUserAgent" ->
             ~(IsVal(last.arg) /\ Len(Trim(last.arg.v)) > 0)
      [] last.op \in {"withHeader", "withHeaders"} ->
             ~IsVal(last.arg) \/ HasReservedHeader(last.arg)
      [] OTHER -> FALSE

C16_FailedCallLeavesBuilder ==
    [][(IsVal(builder) /\ last'.op \in WithOps /\ last'.err # NoErr)
           => builder' = builder]_vars

\* the direct construction with the values of the environment
DirectOnEnvironment ==
    Client_new([apiToken |-> input.env.API_TOKEN,
                baseUrl |-> input.env.BASE_URL,
                headers |-> NoProp,
                userAgent |-> input.env.USER_AGENT])

\* C17: construction from the environment fails with a ConfigError whose
\* field is the name of the credential's variable when that variable is
\* absent or empty, for Client.fromEnvironment and for
\* ClientBuilder.fromEnvironment; with the variable set it ends as the
\* direct construction with the values of the environment does.
C17_FromEnvironment ==
    last.op \in EnvOps =>
        IF ~IsVal(input.env.API_TOKEN) \/ input.env.API_TOKEN.v = ""
        THEN /\ last.err.kind = "ConfigError"
             /\ last.err.field \in {"NVISY_API_TOKEN", "NVISY_API_KEY"}
             /\ client = NoClient
        ELSE /\ last.err = DirectOnEnvironment.err
             /\ client = DirectOnEnvironment.client

\* the value of a property that is given one
Supplied(x) == IF IsVal(x) THEN {x.v} ELSE {}

Derived == {j \in 1..Len(handles) : handles[j].parent # 0}

\* C18: deriving a client (withApiToken) gives a new client and leaves the
\* original as it was: the original's credential, base URL, headers and
\* dispatcher are what they were when it was constructed, and the original
\* and the derived client hold no object in common, neither the header map
\* nor the dispatcher
C18_DerivationSharesNothing ==
    \A j \in Derived :
        LET d == handles[j]
            o == handles[d.parent]
        IN  /\ Deref(o, heap) = o.born
            /\ d.config.headers # o.config.headers
            /\ d.api # o.api

AdaptersOn(ref) ==
    Cardinality({k \in 1..Len(heap[ref].value.middlewares) :
                     heap[ref].value.middlewares[k] = "errorMiddleware"})

\* C19: every client has one dispatcher of its own, created by its
\* constructor, with the error middleware installed on it exactly once, and
\* every service an accessor returned holds that dispatcher
C19_OneDispatcherPerClient ==
    /\ \A i \in 1..Len(handles) :
          /\ heap[handles[i].api].kind = "api"
          /\ AdaptersOn(handles[i].api) = 1
          /\ \A k \in 1..Len(handles) :
                k # i => handles[k].api # handles[i].api
    /\ Cardinality({ref \in 1..Len(heap) : heap[ref].kind = "api"})
           = Len(handles)
    /\ \A f \in facades : f.api = handles[f.owner].api

C19_Witness ==
    /\ Len(handles) = 2
    /\ handles[1].class # handles[2].class
    /\ \A i \in 1..2, service \in Services :
          \E f \in facades : f.owner = i /\ f.service = service

HeaderNamesOf(h) == {h[i][1] : i \in 1..Len(h)}

\* C22: the default headers of the dispatcher of every constructed client
\* are Authorization = "Bearer " + credential, Content-Type =
\* "application/json" and User-Agent = the client identifier, whatever extra
\* headers were supplied: extra headers add names that are not reserved and
\* replace none of the three
C22_DefaultHeadersKept ==
    (last.op \in ConstructionOps /\ client # NoClient) =>
        /\ GetKey(client.api.headers, "Authorization")
               = Val(HStr("Bearer " \o client.config.apiToken))
        /\ GetKey(client.api.headers, "Content-Type")
               = Val(HStr("application/json"))
        /\ GetKey(client.api.headers, "User-Agent")
               = Val(HStr(client.config.userAgent))
        /\ \A n \in HeaderNamesOf(client.api.headers) :
              ToLowerCase(n) \in RESERVED_HEADERS
                  => n \in {"Authorization", "Content-Type", "User-Agent"}

BuilderOps == {"withX.build", "fromConfig.build", "fromEnvironment.build"}

\* no credential anywhere: none in the configuration object, none in the
\* environment
NoCredential == ~IsVal(input.cfg.apiKey) /\ ~IsVal(input.env.API_TOKEN)

\* the reasons with which the code says that a value has to be given
RequiredReasons ==
    {"API key must be provided in configuration", "This field is required",
     "must be a non-empty string"}

NumberCall(field) ==
    /\ last.op = "withX.build"
    /\ input.cfg.apiKey = Val(ValidKey)
    /\ ~IsVal(input.cfg.baseUrl)
    /\ IsVal(input.cfg[field])
    /\ field = "maxRetries" => ~IsVal(input.cfg.timeout)

\* C24: withTimeout(v) succeeds exactly when v is an integer with
\* 1000 <= v <= 300000, both bounds accepted; every other value, a
\* non-integer included, raises a ConfigError whose field is timeout and
\* whose reason names the bound that is violated
C24_TimeoutRange ==
    NumberCall("timeout") =>
        LET v == input.cfg.timeout
        IN  IF IntegerIn(v, 1000, 300000)
            THEN /\ last.err = NoErr
                 /\ builder.v.timeout = v
            ELSE /\ last.err.kind = "ConfigError"
                 /\ last.err.field = "timeout"
                 /\ builder.v.timeout = NoProp
                 /\ (IsInteger(v.v) /\ v.v.i < 1000)
                        => last.err.reason = "must be an integer >= 1000"
                 /\ (IsInteger(v.v) /\ v.v.i > 300000)
                        => last.err.reason = "must not exceed 300000"

C24_Witness ==
    /\ NumberCall("timeout")
    /\ input.cfg.timeout = Val(Num(300000))
    /\ builder.v.timeout = Val(Num(300000))
    /\ client # NoClient

\* C25: withMaxRetries(v) succeeds exactly when v is an integer with
\* 0 <= v <= 10, and raises a ConfigError for every other value: a negative
\* one, one above 10, a non-integer
C25_MaxRetriesRange ==
    NumberCall("maxRetries") =>
        LET v == input.cfg.maxRetries
        IN  IF IntegerIn(v, 0, 10)
            THEN /\ last.err = NoErr
                 /\ builder.v.maxRetries = v
            ELSE /\ last.err.kind = "ConfigError"
                 /\ builder.v.maxRetries = NoProp

\* the latest error was made by ApiError.rateLimited(n), n given
RateLimitedWith ==
    /\ last.op = "ApiError.rateLimited"
    /\ IsVal(last.arg)
    /\ result = Thrown(ApiErrorV1_rateLimited(last.arg))

\* C26: getRetryDelay() of an API error is null exactly when isRetryable()
\* is false; for the error of ApiError.rateLimited(n), n seconds given, it
\* is n * 1000 milliseconds; for every other retryable error it is 1000
C26_RetryDelay ==
    (result.tag = "thrown" /\ result.err.kind = "ApiErrorV1") =>
        /\ ApiErrorV1_getRetryDelay(result.err) = Null
               <=> ~ApiErrorV1_isRetryable(result.err)
        /\ RateLimitedWith =>
               ApiErrorV1_getRetryDelay(result.err)
                   = Val(Times1000(last.arg.v))
        /\ (ApiErrorV1_isRetryable(result.err) /\ ~RateLimitedWith) =>
               ApiErrorV1_getRetryDelay(result.err) = Val(Num(1000))

\* an environment variable that is set, and one set to the decimal writing
\* of an integer of lo..hi
EnvSet(x) == IsVal(x) /\ x.v # ""
EnvIntegerIn(x, lo, hi) ==
    /\ EnvSet(x)
    /\ MatchesAll(x.v, Digits)
    /\ DigitsValue(x.v, 0) >= lo
    /\ DigitsValue(x.v, 0) <= hi

\* C30: a numeric setting of the environment is validated like an explicit
\* one: when NVISY_TIMEOUT or NVISY_MAX_RETRIES is set to something that is
\* not an integer of the field's range, ClientBuilder.fromEnvironment()
\* fails with a ConfigError, and the value is never dropped for the default
C30_EnvNumbersValidated ==
    (/\ last.op = "fromEnvironment.build"
     /\ \/ EnvSet(input.env.TIMEOUT)
              /\ ~EnvIntegerIn(input.env.TIMEOUT, MinTimeout, MaxTimeout)
        \/ EnvSet(input.env.MAX_RETRIES)
              /\ ~EnvIntegerIn(input.env.MAX_RETRIES, MinRetries, MaxRetries))
        => /\ last.err.kind = "ConfigError"
           /\ client = NoClient

\* the entries of the builder's header map, none when it has no map
StoredHeaders(b, hp) ==
    IF IsVal(b) /\ IsVal(b.v.headers) THEN hp[b.v.headers.v].value
    ELSE EmptyObject

SameEntries(h, g) ==
    /\ HeaderNamesOf(h) = HeaderNamesOf(g)
    /\ \A n \in HeaderNamesOf(h) : GetKey(h, n) = GetKey(g, n)

\* C21: nothing the caller does after a client is constructed changes the
\* client's resolved configuration or the headers of its dispatcher: every
\* client is what it was when its constructor returned
C21_ClientFrozen ==
    \A i \in 1..Len(handles) : Deref(handles[i], heap) = handles[i].born

\* C28: a successful header call leaves the builder with the entries it had
\* and the entries supplied, the supplied value winning for a name it had:
\* the stored headers are the union of all that was supplied, the most
\* recent call winning, and a multi-header call discards nothing
C28_HeadersAccumulate ==
    [][(last'.op \in {"header", "headers"} /\ last'.err = NoErr
           /\ <<builder, heap>> # <<builder', heap'>>)
          => SameEntries(StoredHeaders(builder', heap'),
                         Spread(StoredHeaders(builder, heap),
                                last'.arg.v))]_vars

\* C29: build() does not hand the builder's mutable state to the client:
\* a call on the builder after build() changes no client that was built,
\* and a header call on the builder does not write to a map of the caller
C29_BuildDetaches ==
    [][last'.op \in {"header", "headers"}
          => /\ \A i \in 1..Len(handles) :
                   Deref(handles[i], heap') = Deref(handles[i], heap)
             /\ \A ref \in 1..Len(heap) :
                   heap[ref].owner = "caller" => heap'[ref] = heap[ref]]_vars

====
